---- MODULE Spec2Model ----
(***************************************************************************)
(* Model of the X.com video download plugin:                               *)
(*   server/services/video-downloader.js  (class VideoDownloader)          *)
(*   the plugin entry that mounts POST /api/video-download/download        *)
(*                                                                         *)
(* Strings are modelled as sequences of tokens.  A token is either one of  *)
(* the literals the program's regular expressions and includes() calls     *)
(* look for ("x.com", "status", "/", ".m3u8", ...), a maximal run of       *)
(* decimal digits (kind "num", carrying its numeric value), or some other  *)
(* text.  Matching a regular expression of the source on a string is then  *)
(* matching it on the token sequence.                                      *)
(***************************************************************************)
EXTENDS Integers, Sequences, FiniteSets, TLC

VARIABLES
    url,            \* the url argument of downloadVideo
    options,        \* the frameCount entry of the options argument
    ffmpegService,  \* this.ffmpegService: "null" or "service"
    toolInstalled,  \* whether an ffmpeg/ffprobe binary is present on the host
    pc,             \* position of the run inside downloadVideo / downloadVideoFile
    videoUrls,      \* the response log of downloadVideoFile
    page,           \* the page opened by downloadVideoFile: "none", "open", "closed"
    clicked,        \* number of play-button clicks of this attempt
    downloadUrl,    \* the URL chosen by the stream selection (<<>> when undefined)
    isHLS,          \* the strategy flag chosen by the stream selection
    http,           \* state of downloadFileHttp: redirectCount and requests issued
    disk,           \* the output directory: video file, frame files, metadata.json
    frames,         \* the frames array built by the frame extraction
    loopI,          \* loop index of extractFrames
    result,         \* the value downloadVideo resolved with (Null before)
    error,          \* the error downloadVideo rejected with ("" before)
    effects,        \* what this run has done so far (history, for the claims)
    runs,           \* number of downloadVideo runs started against the directory
    tweetId,        \* local of downloadVideo
    username,       \* local of downloadVideo
    videoDir,       \* local of downloadVideo
    mainTweetVideos,\* local of downloadVideoFile: the candidate pool
    video,          \* the remote video of the post: duration and number of frames
    positions,      \* local of extractFrames: the sample instants
    res,            \* the HTTP response of the download endpoint to its request
    parked,         \* the locals of a second run that is suspended at an await
    fs,             \* the directories under VIDEOS_DIR of suspended runs
    req             \* the request of the download endpoint and its handler's position

vars == <<url, options, ffmpegService, toolInstalled, pc, videoUrls, page, clicked,
          downloadUrl, isHLS, http, disk, frames, loopI, result, error, effects, runs,
          tweetId, username, videoDir, mainTweetVideos, video, positions, res,
          parked, fs, req>>

\* What the steps of downloadVideo, apart from extractFrames, leave alone.
added == <<video, positions, res, parked, fs, req>>

-----------------------------------------------------------------------------
(* Tokens and strings                                                      *)

L(s) == [k |-> s, n |-> 0]
N(n) == [k |-> "num", n |-> n]
SLASH == L("/")
Null == L("null")

IsNum(t) == t.k = "num"

\* Array.prototype.join("/") on a sequence of segments.
RECURSIVE Join(_)
Join(segs) ==
    IF Len(segs) = 0 THEN <<>>
    ELSE IF Len(segs) = 1 THEN segs[1]
    ELSE segs[1] \o <<SLASH>> \o Join(Tail(segs))

\* The least member of a non-empty set of integers.
Least(S) == CHOOSE i \in S : \A j \in S : i <= j

\* String.prototype.includes for a single-token needle.
Includes(s, lit) == \E i \in 1..Len(s) : s[i].k = lit

-----------------------------------------------------------------------------
(* extractTweetId, extractUsername                                         *)

\* Positions where /status\/(\d+)/ matches.
TweetIdMatches(u) ==
    { i \in 1..Len(u) : /\ i + 2 <= Len(u)
                         /\ u[i].k = "status"
                         /\ u[i + 1] = SLASH
                         /\ IsNum(u[i + 2]) }

\* Faulty variant: the capture group accepts any token, not only digits.
extractTweetIdAnyToken(u) ==
    LET m == { i \in 1..Len(u) : /\ i + 2 <= Len(u)
                                  /\ u[i].k = "status"
                                  /\ u[i + 1] = SLASH }
    IN IF m = {} THEN Null ELSE u[Least(m) + 2]

extractTweetId(u) ==
    IF TweetIdMatches(u) = {} THEN Null ELSE u[Least(TweetIdMatches(u)) + 2]

\* End of the maximal run of non-"/" tokens that starts at position i
\* (i - 1 when the run is empty).
RECURSIVE RunEnd(_, _)
RunEnd(u, i) ==
    IF i > Len(u) \/ u[i] = SLASH THEN i - 1 ELSE RunEnd(u, i + 1)

\* Positions where /x\.com\/([^/]+)\/status/ matches.
UsernameMatches(u) ==
    { i \in 1..Len(u) : /\ u[i].k = "x.com"
                         /\ i + 1 <= Len(u)
                         /\ u[i + 1] = SLASH
                         /\ RunEnd(u, i + 2) >= i + 2
                         /\ RunEnd(u, i + 2) + 2 <= Len(u)
                         /\ u[RunEnd(u, i + 2) + 1] = SLASH
                         /\ u[RunEnd(u, i + 2) + 2].k = "status" }

UNKNOWN == <<L("unknown")>>

\* Faulty variant: the host is not required, any segment before /status is taken.
extractUsernameAnyHost(u) ==
    LET m == { i \in 1..Len(u) : /\ i + 1 <= Len(u)
                                  /\ u[i + 1] = SLASH
                                  /\ RunEnd(u, i + 2) >= i + 2
                                  /\ RunEnd(u, i + 2) + 2 <= Len(u)
                                  /\ u[RunEnd(u, i + 2) + 1] = SLASH
                                  /\ u[RunEnd(u, i + 2) + 2].k = "status" }
    IN IF m = {} THEN UNKNOWN
       ELSE SubSeq(u, Least(m) + 2, RunEnd(u, Least(m) + 2))

extractUsername(u) ==
    IF UsernameMatches(u) = {} THEN UNKNOWN
    ELSE LET i == Least(UsernameMatches(u))
         IN SubSeq(u, i + 2, RunEnd(u, i + 2))

\* Faulty variant: the directory is named after the author alone.
videoDirNameOfUser(user, id) == user

\* `${username}_${tweetId}`
videoDirName(user, id) == user \o <<L("_"), id>>

\* The plugin entry: PLUGIN_ROOT, VIDEOS_DIR = path.join(PLUGIN_ROOT, 'data',
\* 'videos'), and new VideoDownloader(PLUGIN_ROOT), whose constructor stores
\* its first argument as this.VIDEOS_DIR.
PLUGIN_ROOT == <<L("plugin")>>
VIDEOS_DIR == Join(<<PLUGIN_ROOT, <<L("data")>>, <<L("videos")>> >>)
thisVIDEOS_DIR == PLUGIN_ROOT

-----------------------------------------------------------------------------
(* The response listener's filter, media ids, grouping and stream choice   *)
(* of downloadVideoFile                                                    *)

\* String.prototype.includes for a needle of several tokens.
IncludesSeq(s, needle) ==
    \E i \in 1..Len(s) :
        /\ i + Len(needle) - 1 <= Len(s)
        /\ SubSeq(s, i, i + Len(needle) - 1) = needle

\* The test of the page.on('response') callback.
IsVideoResponse(r) ==
    \/ Includes(r.contentType, "video")
    \/ Includes(r.url, ".mp4")
    \/ Includes(r.url, "video.twimg.com")
    \/ IncludesSeq(r.url, <<SLASH, L("ext_tw_video"), SLASH>>)
    \/ Includes(r.url, ".m3u8")

\* Positions where /(?:ext_tw_video|amplify_video)\/(\d+)/ matches.
VideoIdMatches(u) ==
    { i \in 1..Len(u) : /\ i + 2 <= Len(u)
                         /\ u[i].k \in {"ext_tw_video", "amplify_video"}
                         /\ u[i + 1] = SLASH
                         /\ IsNum(u[i + 2]) }

getVideoId(u) ==
    IF VideoIdMatches(u) = {} THEN Null ELSE u[Least(VideoIdMatches(u)) + 2]

\* Array.prototype.sort is stable: an element is placed behind every element
\* the comparator does not order after it.  The comparators of the source
\* compare one number per element (key[i] for s[i]): cmp(a, b) < 0 exactly
\* when a's number is less than b's.  SortedIndices is the order of 1..n.
RECURSIVE InsertSorted(_, _, _)
InsertSorted(idx, x, key) ==
    IF Len(idx) = 0 THEN <<x>>
    ELSE IF key[x] < key[idx[1]] THEN <<x>> \o idx
    ELSE <<idx[1]>> \o InsertSorted(Tail(idx), x, key)

RECURSIVE SortedIndices(_, _)
SortedIndices(n, key) ==
    IF n = 0 THEN <<>>
    ELSE InsertSorted(SortedIndices(n - 1, key), n, key)

StableSort(s, key) ==
    LET idx == SortedIndices(Len(s), key)
    IN [i \in 1..Len(s) |-> s[idx[i]]]

\* The keys of the videoGroups Map, in insertion order.
RECURSIVE GroupKeys(_)
GroupKeys(log) ==
    IF Len(log) = 0 THEN <<>>
    ELSE LET front == GroupKeys(SubSeq(log, 1, Len(log) - 1))
             id == getVideoId(log[Len(log)].url)
         IN IF id = Null \/ (\E i \in 1..Len(front) : front[i] = id)
            THEN front
            ELSE Append(front, id)

\* [...videoGroups.entries()]
videoGroups(log) ==
    LET keys == GroupKeys(log)
        Member(id) == LET Same(v) == getVideoId(v.url) = id IN SelectSeq(log, Same)
    IN [i \in 1..Len(keys) |-> [id |-> keys[i], videos |-> Member(keys[i])]]

Abs(x) == IF x < 0 THEN -x ELSE x

\* tweetId ? BigInt(tweetId) : null, and its truthiness in the if.
tweetIdNum(u) == IF extractTweetId(u) = Null THEN 0 ELSE extractTweetId(u).n
TweetIdNumTruthy(u) == extractTweetId(u) # Null /\ tweetIdNum(u) # 0

\* sortedGroups: the comparator is aAbs < bAbs ? -1 : aAbs > bAbs ? 1 : 0.
sortedGroups(log, u) ==
    LET g == videoGroups(log)
    IN StableSort(g, [i \in 1..Len(g) |-> Abs(tweetIdNum(u) - g[i].id.n)])

\* The value of mainTweetVideos after the if/else.
MainTweetVideosOf(log, u) ==
    IF Len(videoGroups(log)) > 0 /\ TweetIdNumTruthy(u)
    THEN sortedGroups(log, u)[1].videos
    ELSE log

\* Positions where /\/(\d+)x(\d+)\// matches.
SlashResMatches(u) ==
    { i \in 1..Len(u) : /\ i + 4 <= Len(u)
                         /\ u[i] = SLASH
                         /\ IsNum(u[i + 1])
                         /\ u[i + 2].k = "x"
                         /\ IsNum(u[i + 3])
                         /\ u[i + 4] = SLASH }

\* Positions where /(\d+)x(\d+)/ matches.
AnyResMatches(u) ==
    { i \in 1..Len(u) : /\ i + 2 <= Len(u)
                         /\ IsNum(u[i])
                         /\ u[i + 1].k = "x"
                         /\ IsNum(u[i + 2]) }

\* aRes ? parseInt(aRes[1]) * parseInt(aRes[2]) : 0 for the playlist regex.
HlsPixels(u) ==
    IF SlashResMatches(u) = {} THEN 0
    ELSE LET i == Least(SlashResMatches(u)) IN u[i + 1].n * u[i + 3].n

\* The same for the progressive-file regex.
Mp4Pixels(u) ==
    IF AnyResMatches(u) = {} THEN 0
    ELSE LET i == Least(AnyResMatches(u)) IN u[i].n * u[i + 2].n

IsHlsCandidate(v) ==
    /\ v.status = 200
    /\ Includes(v.url, ".m3u8")
    /\ (SlashResMatches(v.url) # {} \/ IncludesSeq(v.url, <<L("pl"), SLASH, L("avc1")>>))

\* Faulty variant: the codec marker alternative of the second filter is missing.
hlsPlaylistsNoMarker(pool) ==
    LET Keep(v) == /\ v.status = 200
                   /\ Includes(v.url, ".m3u8")
                   /\ SlashResMatches(v.url) # {}
        kept == SelectSeq(pool, Keep)
    IN StableSort(kept, [i \in 1..Len(kept) |-> -HlsPixels(kept[i].url)])

\* Faulty variant: the candidates stay in the order of the pool.
hlsPlaylistsUnsorted(pool) ==
    SelectSeq(pool, IsHlsCandidate)

\* The comparator is bPixels - aPixels: more pixels first.
hlsPlaylists(pool) ==
    LET kept == SelectSeq(pool, IsHlsCandidate)
    IN StableSort(kept, [i \in 1..Len(kept) |-> -HlsPixels(kept[i].url)])

\* Faulty variant: the status of a progressive file is not looked at.
IsMp4CandidateAnyStatus(v) ==
    /\ Includes(v.url, ".mp4")
    /\ ~Includes(v.url, ".m4s")

IsMp4Candidate(v) ==
    /\ v.status = 200
    /\ Includes(v.url, ".mp4")
    /\ ~Includes(v.url, ".m4s")

mp4Videos(pool) ==
    LET kept == SelectSeq(pool, IsMp4Candidate)
    IN StableSort(kept, [i \in 1..Len(kept) |-> -Mp4Pixels(kept[i].url)])

\* downloadUrl and isHLS after the selection (url <<>> is undefined).
SelectStream(pool) ==
    IF Len(hlsPlaylists(pool)) > 0
    THEN [url |-> hlsPlaylists(pool)[1].url, isHLS |-> TRUE]
    ELSE IF Len(mp4Videos(pool)) > 0
         THEN [url |-> mp4Videos(pool)[1].url, isHLS |-> FALSE]
         ELSE [url |-> <<>>, isHLS |-> FALSE]

-----------------------------------------------------------------------------
(* Bounds and the inputs of the runs                                       *)

MaxRuns == 2          \* downloadVideo runs against the directory
MaxResponses == 2     \* responses the page delivers during one attempt
MaxCount == 2         \* largest explicit frame count requested
MaxVideoFrames == 2   \* most frames the whole-file dump produces

DefaultFrameCount == 5
MaxRedirects == 10

\* "https://<host>/<handle>/<word>/<id>"
PostUrl(host, handle, word, id) ==
    Join(<< <<L("https:")>>, <<>>, <<L(host)>>, <<L(handle)>>, <<L(word)>>, <<N(id)>> >>)

Urls == { PostUrl("x.com", "example", "status", 10),
          PostUrl("x.com", "example", "photo", 10) }

\* "https://video.twimg.com/<kind>/<id>/pl/<w>x<h>/f<ext>"
MediaUrl(kind, id, w, h, ext) ==
    Join(<< <<L("https:")>>, <<>>, <<L("video.twimg.com")>>, <<L(kind)>>, <<N(id)>>,
            <<L("pl")>>, <<N(w), L("x"), N(h)>>, <<L("f"), L(ext)>> >>)

VideoType == <<L("video"), SLASH, L("mp4")>>
HtmlType == <<L("text"), SLASH, L("html")>>

Resp(u, ct, st) == [url |-> u, contentType |-> ct, status |-> st]

\* What the page of a run may deliver.
PageResponses ==
    { Resp(MediaUrl("ext_tw_video", 9, 4, 3, ".m3u8"), <<>>, 200),
      Resp(MediaUrl("ext_tw_video", 9, 8, 6, ".mp4"), VideoType, 200),
      Resp(MediaUrl("amplify_video", 11, 4, 3, ".mp4"), VideoType, 404),
      Resp(Join(<< <<L("https:")>>, <<>>, <<L("x.com")>>, <<L("home")>> >>), HtmlType, 200) }

\* The values of options.frameCount: absent, 0..MaxCount, 'all'.
Absent == L("absent")
All == L("all")
FrameSpecs == {Absent, All} \cup { N(n) : n \in 0..MaxCount }

NoMetadata == [written |-> FALSE, tweet_id |-> Null, username |-> <<>>, frame_count |-> 0,
               downloaded_at |-> 0]
NoResult == [returned |-> FALSE, videoPath |-> <<>>, frames |-> <<>>, metadata |-> NoMetadata]
\* A directory: frame_<n>.jpg files are kept by their numbers, files that the
\* program did not write by their names.
EmptyDisk == [dir |-> FALSE, video |-> "absent", frames |-> {}, metadata |-> NoMetadata,
              other |-> {}]
\* The arguments of makeRequest and the number of requests issued; currentUrl
\* is <<>> until downloadFileHttp is called.
NoHttp == [redirectCount |-> 0, requests |-> 0, currentUrl |-> <<>>]
NoRes == [sent |-> FALSE, status |-> 0, error |-> "", videoUrl |-> <<>>, frameUrls |-> <<>>]
\* No request: downloadVideo is called directly.
NoReq == [at |-> "none", browserId |-> TRUE, browserService |-> "service",
          lookup |-> [rejects |-> FALSE, success |-> TRUE, authenticated |-> TRUE],
          frameCount |-> L("absent")]

\* The remote video of a post: its duration in hundredths of a second, as
\* ffprobe reports it, and the number of frames ffmpeg decodes from it.
Video(d, n) == [duration |-> d, frameTotal |-> n]
Videos == { Video(6500, n) : n \in 1..MaxVideoFrames }

-----------------------------------------------------------------------------
(* downloadVideo                                                           *)

\* const { frameCount = 5 } = options
frameCount == IF options = Absent THEN N(DefaultFrameCount) ELSE options

shouldExtractFrames ==
    frameCount = All \/ (IsNum(frameCount) /\ frameCount.n > 0)

\* getFfmpegPath / getFfprobePath: without a service the bare command name is
\* returned; the service returns the installed binary or downloads it first.
ToolPathOutcomes ==
    IF ffmpegService = "service" /\ ~toolInstalled THEN {"downloaded", "throw"} ELSE {"ok"}

\* spawn(...): 'error' when there is no binary, else 'close' with an exit code.
SpawnOutcomes(installed) == IF installed THEN {"exit0", "exit1"} ELSE {"enoent"}

\* Faulty variant: a failing step starts the run again.
ThrowAndRetry(msg) ==
    /\ pc' = "start"
    /\ error' = msg

\* throw / reject: the rejection passes through every await of the run.
Throw(msg) ==
    /\ pc' = "failed"
    /\ error' = msg

Init ==
    /\ url \in Urls
    /\ ffmpegService \in {"null", "service"}
    /\ toolInstalled \in BOOLEAN
    /\ options = Absent
    /\ pc = "idle"
    /\ videoUrls = <<>>
    /\ page = "none"
    /\ clicked = 0
    /\ downloadUrl = <<>>
    /\ isHLS = FALSE
    /\ http = NoHttp
    /\ disk = EmptyDisk
    /\ frames = <<>>
    /\ loopI = 0
    /\ result = NoResult
    /\ error = ""
    /\ effects = {}
    /\ runs = 0
    /\ tweetId = Null
    /\ username = <<>>
    /\ videoDir = <<>>
    /\ mainTweetVideos = <<>>
    /\ video \in Videos
    /\ positions = <<>>
    /\ res = NoRes
    /\ parked = <<>>
    /\ fs = <<>>
    /\ req = NoReq

\* Entry of downloadVideo(url, browserService, browserId, options): the locals
\* of the new run.
BeginRun(opt) ==
    /\ runs' = runs + 1
    /\ options' = opt
    /\ pc' = "start"
    /\ videoUrls' = <<>>
    /\ page' = "none"
    /\ clicked' = 0
    /\ downloadUrl' = <<>>
    /\ isHLS' = FALSE
    /\ http' = NoHttp
    /\ frames' = <<>>
    /\ loopI' = 0
    /\ result' = NoResult
    /\ error' = ""
    /\ effects' = {}
    /\ tweetId' = Null
    /\ username' = <<>>
    /\ videoDir' = <<>>
    /\ mainTweetVideos' = <<>>
    /\ positions' = <<>>
    /\ res' = NoRes
    /\ UNCHANGED <<url, ffmpegService, toolInstalled, disk, video, parked, fs>>

\* A caller invokes downloadVideo for the post.
CallDownloadVideo(opt) ==
    /\ pc = "idle"
    /\ BeginRun(opt)
    /\ UNCHANGED req

\* A caller invokes downloadVideo for the same post again, after the earlier
\* run has settled.
CallAgain(opt) ==
    /\ pc \in {"done", "failed"}
    /\ runs < MaxRuns
    /\ BeginRun(opt)
    /\ UNCHANGED req

\* if (shouldExtractFrames) await this.getFfmpegPath()
EnsureFfmpeg ==
    /\ pc = "start"
    /\ IF shouldExtractFrames
       THEN \E o \in ToolPathOutcomes :
              /\ toolInstalled' = (toolInstalled \/ o = "downloaded")
              /\ effects' = effects \cup {"getFfmpegPath"}
                                    \cup (IF o = "ok" THEN {} ELSE {"autoDownload"})
              /\ IF o = "throw"
                 THEN Throw("ffmpeg unavailable")
                 ELSE pc' = "parse" /\ UNCHANGED error
       ELSE /\ pc' = "parse"
            /\ UNCHANGED <<toolInstalled, effects, error>>
    /\ UNCHANGED added
    /\ UNCHANGED <<url, options, ffmpegService, videoUrls, page, clicked, downloadUrl,
                   isHLS, http, disk, frames, loopI, result, runs, tweetId, username,
                   videoDir, mainTweetVideos>>

\* extractTweetId, extractUsername, if (!tweetId) throw
ParseInput ==
    /\ pc = "parse"
    /\ tweetId' = extractTweetId(url)
    /\ username' = extractUsername(url)
    /\ IF extractTweetId(url) = Null
       THEN Throw("Invalid X.com URL - could not extract tweet ID")
       ELSE pc' = "mkdir" /\ UNCHANGED error
    /\ UNCHANGED added
    /\ UNCHANGED <<url, options, ffmpegService, toolInstalled, videoUrls, page, clicked,
                   downloadUrl, isHLS, http, disk, frames, loopI, result, effects, runs,
                   videoDir, mainTweetVideos>>

\* fs.mkdir(VIDEOS_DIR), videoDir = join(VIDEOS_DIR, `${username}_${tweetId}`),
\* fs.mkdir(videoDir), both with recursive: true
MakeDirs ==
    /\ pc = "mkdir"
    /\ videoDir' = Join(<<thisVIDEOS_DIR, videoDirName(username, tweetId)>>)
    /\ disk' = [disk EXCEPT !.dir = TRUE]
    /\ effects' = effects \cup {"mkdir"}
    /\ pc' = "context"
    /\ UNCHANGED added
    /\ UNCHANGED <<url, options, ffmpegService, toolInstalled, videoUrls, page, clicked,
                   downloadUrl, isHLS, http, frames, loopI, result, error, runs, tweetId,
                   username, mainTweetVideos>>

-----------------------------------------------------------------------------
(* downloadVideoFile: observation of the page                              *)

\* browserService.getBrowserContext(browserId)
GetBrowserContext ==
    /\ pc = "context"
    /\ effects' = effects \cup {"context"}
    /\ \E ok \in BOOLEAN :
         IF ok THEN pc' = "newPage" /\ UNCHANGED error
         ELSE /\ Throw("getBrowserContext failed")
    /\ UNCHANGED added
    /\ UNCHANGED <<url, options, ffmpegService, toolInstalled, videoUrls, page, clicked,
                   downloadUrl, isHLS, http, disk, frames, loopI, result, runs, tweetId,
                   username, videoDir, mainTweetVideos>>

\* context.newPage(), videoUrls = [], page.on('response', ...)
NewPage ==
    /\ pc = "newPage"
    /\ page' = "open"
    /\ videoUrls' = <<>>
    /\ pc' = "goto"
    /\ UNCHANGED added
    /\ UNCHANGED <<url, options, ffmpegService, toolInstalled, clicked, downloadUrl,
                   isHLS, http, disk, frames, loopI, result, error, effects, runs, tweetId,
                   username, videoDir, mainTweetVideos>>

\* Faulty variant: the listener also runs behind page.close().
OnResponseAfterClose(r) ==
    /\ page \in {"open", "closed"}
    /\ pc \in {"goto", "settle", "findPlay", "click", "wait", "close", "hls", "http", "body"}
    /\ Len(videoUrls) < MaxResponses
    /\ IsVideoResponse(r)
    /\ videoUrls' = Append(videoUrls, r)
    /\ UNCHANGED added
    /\ UNCHANGED <<url, options, ffmpegService, toolInstalled, pc, page, clicked,
                   downloadUrl, isHLS, http, disk, frames, loopI, result, error, effects,
                   runs, tweetId, username, videoDir, mainTweetVideos>>

\* The page.on('response') callback: it runs whenever the open page delivers a
\* response while downloadVideoFile is suspended at an await.
OnResponse(r) ==
    /\ page = "open"
    /\ pc \in {"goto", "settle", "findPlay", "click", "wait", "close"}
    /\ Len(videoUrls) < MaxResponses
    /\ IsVideoResponse(r)
    /\ videoUrls' = Append(videoUrls, r)
    /\ UNCHANGED added
    /\ UNCHANGED <<url, options, ffmpegService, toolInstalled, pc, page, clicked,
                   downloadUrl, isHLS, http, disk, frames, loopI, result, error, effects,
                   runs, tweetId, username, videoDir, mainTweetVideos>>

\* page.goto(url, { waitUntil: 'domcontentloaded', timeout: 60000 })
Goto ==
    /\ pc = "goto"
    /\ effects' = effects \cup {"goto"}
    /\ \E ok \in BOOLEAN :
         IF ok THEN pc' = "settle" /\ UNCHANGED error
         ELSE Throw("navigation failed")
    /\ UNCHANGED added
    /\ UNCHANGED <<url, options, ffmpegService, toolInstalled, videoUrls, page, clicked,
                   downloadUrl, isHLS, http, disk, frames, loopI, result, runs, tweetId,
                   username, videoDir, mainTweetVideos>>

\* Faulty variant: the play button is looked for whatever the log holds.
SettleThenFindPlay ==
    /\ pc = "settle"
    /\ pc' = "findPlay"
    /\ effects' = effects \cup (IF Len(videoUrls) > 0 THEN {} ELSE {"emptyAfterLoad"})
    /\ UNCHANGED added
    /\ UNCHANGED <<url, options, ffmpegService, toolInstalled, videoUrls, page, clicked,
                   downloadUrl, isHLS, http, disk, frames, loopI, result, error,
                   runs, tweetId, username, videoDir, mainTweetVideos>>

\* page.waitForTimeout(4000), then the test videoUrls.length > 0
Settle ==
    /\ pc = "settle"
    /\ pc' = IF Len(videoUrls) > 0 THEN "close" ELSE "findPlay"
    /\ effects' = effects \cup (IF Len(videoUrls) > 0 THEN {} ELSE {"emptyAfterLoad"})
    /\ UNCHANGED added
    /\ UNCHANGED <<url, options, ffmpegService, toolInstalled, videoUrls, page, clicked,
                   downloadUrl, isHLS, http, disk, frames, loopI, result, error,
                   runs, tweetId, username, videoDir, mainTweetVideos>>

\* page.$('[data-testid="playButton"], [aria-label="Play"]'), if (playButton)
FindPlayButton ==
    /\ pc = "findPlay"
    /\ \E found \in {"element", "null", "rejects"} :
         IF found = "rejects" THEN Throw("lookup failed")
         ELSE /\ pc' = IF found = "element" THEN "click" ELSE "close"
              /\ UNCHANGED error
    /\ UNCHANGED added
    /\ UNCHANGED <<url, options, ffmpegService, toolInstalled, videoUrls, page, clicked,
                   downloadUrl, isHLS, http, disk, frames, loopI, result, effects,
                   runs, tweetId, username, videoDir, mainTweetVideos>>

\* playButton.click()
ClickPlay ==
    /\ pc = "click"
    /\ \E ok \in BOOLEAN :
         IF ok THEN /\ clicked' = clicked + 1
                    /\ pc' = "wait"
                    /\ UNCHANGED error
         ELSE /\ Throw("click failed")
              /\ UNCHANGED clicked
    /\ UNCHANGED added
    /\ UNCHANGED <<url, options, ffmpegService, toolInstalled, videoUrls, page,
                   downloadUrl, isHLS, http, disk, frames, loopI, result, effects, runs,
                   tweetId, username, videoDir, mainTweetVideos>>

\* page.waitForTimeout(3000)
WaitAfterClick ==
    /\ pc = "wait"
    /\ pc' = "close"
    /\ UNCHANGED added
    /\ UNCHANGED <<url, options, ffmpegService, toolInstalled, videoUrls, page, clicked,
                   downloadUrl, isHLS, http, disk, frames, loopI, result, error, effects,
                   runs, tweetId, username, videoDir, mainTweetVideos>>

\* page.close() and the synchronous code behind it: the empty-log test, the
\* grouping, the choice of the group and of the stream.
ClosePage ==
    /\ pc = "close"
    /\ page' = "closed"
    /\ IF Len(videoUrls) = 0
       THEN /\ Throw("No video found in this tweet")
            /\ UNCHANGED <<mainTweetVideos, downloadUrl, isHLS, effects>>
       ELSE LET pool == MainTweetVideosOf(videoUrls, url)
                sel == SelectStream(pool)
            IN /\ mainTweetVideos' = pool
               /\ downloadUrl' = sel.url
               /\ isHLS' = sel.isHLS
               /\ IF sel.url = <<>>
                  THEN /\ Throw("Could not find downloadable video URL")
                       /\ UNCHANGED effects
                  ELSE /\ pc' = IF sel.isHLS THEN "hls" ELSE "http"
                       /\ effects' = effects \cup {"selected"}
                       /\ UNCHANGED error
    /\ UNCHANGED added
    /\ UNCHANGED <<url, options, ffmpegService, toolInstalled, videoUrls, clicked, http,
                   disk, frames, loopI, result, runs, tweetId, username, videoDir>>

-----------------------------------------------------------------------------
(* downloadVideoFile: retrieval                                            *)

\* The locals of downloadVideoFile, which end with its return.
locals == <<videoUrls, mainTweetVideos, downloadUrl, isHLS, http>>

ReturnOutputPath ==
    /\ videoUrls' = <<>>
    /\ mainTweetVideos' = <<>>
    /\ downloadUrl' = <<>>
    /\ isHLS' = FALSE
    /\ http' = NoHttp

\* if (isHLS): getFfmpegPath(), spawn ffmpeg -i downloadUrl -c copy ... -y
\* outputPath.  A failing ffmpeg may have created the output file already.
RemuxPlaylist ==
    /\ pc = "hls"
    /\ \E o \in ToolPathOutcomes :
         LET installed == toolInstalled \/ o = "downloaded"
         IN /\ toolInstalled' = installed
            /\ IF o = "throw"
               THEN /\ Throw("ffmpeg unavailable")
                    /\ effects' = effects \cup {"getFfmpegPath", "autoDownload"}
                    /\ UNCHANGED <<disk, locals>>
               ELSE \E sp \in SpawnOutcomes(installed), partial \in BOOLEAN :
                      /\ effects' = effects \cup {"getFfmpegPath"}
                            \cup (IF o = "ok" THEN {} ELSE {"autoDownload"})
                            \cup (IF sp = "enoent" THEN {"retrieveFailure"} ELSE {"download"})
                            \cup (IF sp = "exit1" THEN {"retrieveFailure"} ELSE {})
                            \cup (IF sp = "exit0" THEN {"retrieved"} ELSE {})
                      /\ IF sp = "exit0"
                         THEN /\ disk' = [disk EXCEPT !.video = "complete"]
                              /\ pc' = "probe"
                              /\ ReturnOutputPath
                              /\ UNCHANGED error
                         ELSE /\ disk' = IF sp = "exit1" /\ partial
                                         THEN [disk EXCEPT !.video = "partial"]
                                         ELSE disk
                              /\ Throw(IF sp = "exit1" THEN "Failed to download HLS video"
                                       ELSE "spawn ffmpeg ENOENT")
                              /\ UNCHANGED locals
    /\ UNCHANGED added
    /\ UNCHANGED <<url, options, ffmpegService, page, clicked, frames, loopI, result, runs,
                   tweetId, username, videoDir>>

\* The Location headers a server may send: an absolute URL with either
\* scheme, a path that starts with "/", and a relative reference.
Locations ==
    { Join(<< <<L("https:")>>, <<>>, <<L("cdn.example")>>, <<L("v")>> >>),
      Join(<< <<L("http:")>>, <<>>, <<L("cdn.example")>>, <<L("v")>> >>),
      <<SLASH, L("v")>>,
      <<L("v")>> }

\* const protocol = url.startsWith('https') ? https : http
protocolOf(u) == IF Len(u) > 0 /\ u[1].k = "https:" THEN "https:" ELSE "http:"

\* if (redirectUrl.startsWith('/')) redirectUrl =
\* `${urlObj.protocol}//${urlObj.host}${redirectUrl}`
redirectUrlOf(currentUrl, location) ==
    IF Len(location) > 0 /\ location[1] = SLASH
    THEN <<currentUrl[1], SLASH, SLASH, currentUrl[4]>> \o location
    ELSE location

\* protocol.get(currentUrl, ...) throws for a string that is no absolute URL
\* and for a URL whose scheme is not the one of the module.
getThrows(protocol, currentUrl) ==
    \/ Len(currentUrl) = 0
    \/ currentUrl[1].k \notin {"https:", "http:"}
    \/ currentUrl[1].k # protocol

\* makeRequest(currentUrl, redirectCount) of downloadFileHttp and the response
\* callback up to createWriteStream / response.pipe.  The first call is made
\* inside the Promise executor, the later ones inside a response callback,
\* where an exception reaches neither resolve nor reject.
HttpRequest ==
    /\ pc = "http"
    /\ LET currentUrl == IF http.requests = 0 THEN downloadUrl ELSE http.currentUrl
       IN IF http.redirectCount > MaxRedirects
          THEN /\ Throw("Too many redirects")
               /\ effects' = effects \cup {"retrieveFailure"}
               /\ UNCHANGED <<http, disk>>
          ELSE IF getThrows(protocolOf(downloadUrl), currentUrl)
          THEN /\ IF http.requests = 0
                  THEN /\ Throw("Invalid URL")
                       /\ effects' = effects \cup {"retrieveFailure"}
                  ELSE /\ pc' = "hung"
                       /\ effects' = effects \cup {"getThrew"}
                       /\ UNCHANGED error
               /\ UNCHANGED <<http, disk>>
          ELSE \E answer \in {"error", "redirect", "status", "ok"}, location \in Locations :
                 /\ http' = [redirectCount |-> IF answer = "redirect"
                                                 THEN http.redirectCount + 1
                                                 ELSE http.redirectCount,
                             requests |-> http.requests + 1,
                             currentUrl |-> IF answer = "redirect"
                                            THEN redirectUrlOf(currentUrl, location)
                                            ELSE currentUrl]
                 /\ effects' = effects \cup {"download"}
                       \cup (IF answer \in {"error", "status"} THEN {"retrieveFailure"} ELSE {})
                 /\ disk' = IF answer = "ok" THEN [disk EXCEPT !.video = "partial"] ELSE disk
                 /\ IF answer = "error" THEN Throw("connection error")
                    ELSE IF answer = "status" THEN Throw("Download failed")
                    ELSE /\ pc' = IF answer = "ok" THEN "body" ELSE "http"
                         /\ UNCHANGED error
    /\ UNCHANGED added
    /\ UNCHANGED <<url, options, ffmpegService, toolInstalled, videoUrls, page, clicked,
                   downloadUrl, isHLS, frames, loopI, result, runs, tweetId, username,
                   videoDir, mainTweetVideos>>

\* The transfer of the body: file 'finish', file 'error', or the response
\* stream ends early, for which no handler is registered.
HttpBody ==
    /\ pc = "body"
    /\ \E ev \in {"finish", "fileError", "aborted"} :
         /\ disk' = [disk EXCEPT !.video = IF ev = "finish" THEN "complete"
                                           ELSE IF ev = "fileError" THEN "absent"
                                           ELSE "partial"]
         /\ effects' = effects \cup (IF ev = "finish" THEN {"retrieved"}
                                     ELSE IF ev = "fileError" THEN {"retrieveFailure"}
                                     ELSE {"bodyAborted"})
         /\ IF ev = "fileError" THEN Throw("write error") /\ UNCHANGED locals
            ELSE IF ev = "finish" THEN pc' = "probe" /\ ReturnOutputPath /\ UNCHANGED error
            ELSE pc' = "hung" /\ UNCHANGED <<error, locals>>
    /\ UNCHANGED added
    /\ UNCHANGED <<url, options, ffmpegService, toolInstalled, page, clicked, frames,
                   loopI, result, runs, tweetId, username, videoDir>>

-----------------------------------------------------------------------------
(* downloadVideo: probe, frames, metadata                                  *)

\* Faulty variant: a count of 0 is sent to extractFrames too.
SampleBranchNonNegative ==
    IF frameCount = All THEN "allFrames"
    ELSE IF IsNum(frameCount) /\ frameCount.n >= 0 THEN "extractFrames"
    ELSE "persist"

\* The branch on frameCount behind the probe.
SampleBranch ==
    IF frameCount = All THEN "allFrames"
    ELSE IF IsNum(frameCount) /\ frameCount.n > 0 THEN "extractFrames"
    ELSE "persist"

\* fs.stat(videoPath), getVideoDuration(videoPath), let frames = []
Probe ==
    /\ pc = "probe"
    /\ \E o \in ToolPathOutcomes :
         LET installed == toolInstalled \/ o = "downloaded"
         IN /\ toolInstalled' = installed
            /\ \E sp \in (IF o = "throw" THEN {"none"} ELSE SpawnOutcomes(installed)) :
                 /\ effects' = effects \cup {"probe"}
                       \cup (IF o = "ok" THEN {} ELSE {"autoDownload"})
                       \cup (IF sp = "exit0" THEN {"probed"} ELSE {"probeFailure"})
                 /\ IF sp = "exit0"
                    THEN /\ pc' = SampleBranch
                         /\ UNCHANGED error
                    ELSE Throw("Failed to get video duration")
    /\ frames' = <<>>
    /\ UNCHANGED added
    /\ UNCHANGED <<url, options, ffmpegService, videoUrls, page, clicked, downloadUrl,
                   isHLS, http, disk, loopI, result, runs, tweetId, username, videoDir,
                   mainTweetVideos>>

\* Instants are exact fractions of a hundredth of a second, in lowest terms.
RECURSIVE GCD(_, _)
GCD(a, b) == IF b = 0 THEN a ELSE GCD(b, a % b)

Frac(n, d) ==
    LET g == GCD(Abs(n), d) IN [num |-> n \div g, den |-> d \div g]

PullBack == 50

\* Math.max(0, q)
Max0(q) == IF q.num < 0 THEN Frac(0, 1) ELSE q

\* Faulty variant: the last instant is not pulled back.
positionsOfNoPullBack(count, duration) ==
    [j \in 1..count |-> Frac(j * duration, count)]

\* Array.from({ length: count }, (_, i) => ...): position is
\* ((i + 1) / count) * duration, and for i = count - 1 it is
\* Math.max(0, position - 0.5).  Element i of the array is element i + 1 here.
positionsOf(count, duration) ==
    [j \in 1..count |->
        LET i == j - 1
            position == Frac((i + 1) * duration, count)
        IN IF i = count - 1
           THEN Max0(Frac(position.num - PullBack * position.den, position.den))
           ELSE position]

\* extractFrames up to the loop: getFfmpegPath(), getVideoDuration(), the
\* positions array of length count.
ExtractFramesStart ==
    /\ pc = "extractFrames"
    /\ \E o \in ToolPathOutcomes :
         LET installed == toolInstalled \/ o = "downloaded"
         IN /\ toolInstalled' = installed
            /\ \E sp \in (IF o = "throw" THEN {"none"} ELSE SpawnOutcomes(installed)) :
                 /\ effects' = effects \cup {"extractFrames", "getFfmpegPath"}
                       \cup (IF o = "ok" THEN {} ELSE {"autoDownload"})
                       \cup (IF sp = "exit0" THEN {} ELSE {"frameFailure"})
                       \cup (IF sp = "exit0" /\ frameCount.n = 0 THEN {"sampled"} ELSE {})
                 /\ IF sp = "exit0"
                    THEN /\ pc' = IF 0 < frameCount.n THEN "frameLoop" ELSE "persist"
                         /\ UNCHANGED error
                    ELSE Throw("Failed to get video duration")
                 /\ positions' = IF sp = "exit0"
                                  THEN positionsOf(frameCount.n, video.duration)
                                  ELSE positions
    /\ frames' = <<>>
    /\ loopI' = 0
    /\ UNCHANGED <<video, res, parked, fs, req>>
    /\ UNCHANGED <<url, options, ffmpegService, videoUrls, page, clicked, downloadUrl,
                   isHLS, http, disk, result, runs, tweetId, username, videoDir,
                   mainTweetVideos>>

\* Faulty variant: a frame file is numbered behind the frame files that the
\* directory holds already.
framePathBehind(i) == i + 1 + Cardinality(disk.frames)

\* `frame_${i + 1}.jpg`: a frame file is modelled by its number.
framePath(i) == i + 1

\* Faulty variant: the file number is the loop index.
onFrameCloseZeroBased(code, i) ==
    IF code = "exit0" THEN [settle |-> "resolve", push |-> <<i>>]
    ELSE [settle |-> "reject", push |-> <<>>]

\* Faulty variant: the exit code is not looked at.
onFrameCloseAnyCode(code, i) == [settle |-> "resolve", push |-> <<framePath(i)>>]

\* ffmpeg.on('close', (code) => ...) and ffmpeg.on('error', reject) of the loop
onFrameClose(code, i) ==
    IF code = "exit0" THEN [settle |-> "resolve", push |-> <<framePath(i)>>]
    ELSE [settle |-> "reject", push |-> <<>>]

\* One iteration of the loop of extractFrames: spawn ffmpeg -ss ... -y framePath.
ExtractFrame ==
    /\ pc = "frameLoop"
    /\ \E sp \in SpawnOutcomes(toolInstalled) :
         LET r == onFrameClose(sp, loopI)
         IN /\ disk' = IF sp = "exit0"
                        THEN [disk EXCEPT !.frames = @ \cup {framePath(loopI)}]
                        ELSE disk
            /\ effects' = effects \cup (IF sp = "exit0" THEN {} ELSE {"frameFailure"})
                                  \cup (IF sp = "exit0" /\ loopI + 1 = frameCount.n
                                        THEN {"sampled"} ELSE {})
            /\ frames' = frames \o r.push
            /\ IF r.settle = "resolve"
               THEN /\ loopI' = loopI + 1
                    /\ pc' = IF loopI + 1 < frameCount.n THEN "frameLoop" ELSE "persist"
                    /\ UNCHANGED error
               ELSE /\ Throw("Failed to extract frame")
                    /\ UNCHANGED loopI
    /\ UNCHANGED added
    /\ UNCHANGED <<url, options, ffmpegService, toolInstalled, videoUrls, page, clicked,
                   downloadUrl, isHLS, http, result, runs, tweetId, username, videoDir,
                   mainTweetVideos>>

\* `frame_${n}.jpg`, and the other files downloadVideo writes.
frameName(n) == <<L("frame_"), N(n), L(".jpg")>>
VideoFile == <<L("video.mp4")>>
MetadataFile == <<L("metadata.json")>>

\* The names in a directory.
DirNames(d) ==
    { frameName(n) : n \in d.frames } \cup d.other
        \cup (IF d.video = "absent" THEN {} ELSE {VideoFile})
        \cup (IF d.metadata.written THEN {MetadataFile} ELSE {})

RECURSIVE SetToSeq(_)
SetToSeq(S) ==
    IF S = {} THEN <<>>
    ELSE LET x == CHOOSE y \in S : TRUE IN <<x>> \o SetToSeq(S \ {x})

\* The orders in which fs.readdir may list the names of a directory.
Listings(files) ==
    LET base == SetToSeq(files)
    IN { [i \in 1..Len(base) |-> base[p[i]]] : p \in Permutations(1..Len(base)) }

\* f.startsWith('frame_') && f.endsWith('.jpg')
IsFrameFile(f) == Len(f) > 0 /\ f[1].k = "frame_" /\ f[Len(f)].k = ".jpg"

\* Positions where /frame_(\d+)/ matches.
FrameNumMatches(f) ==
    { i \in 1..Len(f) : i + 1 <= Len(f) /\ f[i].k = "frame_" /\ IsNum(f[i + 1]) }

\* parseInt(f.match(/frame_(\d+)/)[1]), where there is a match.
frameNum(f) ==
    IF FrameNumMatches(f) = {} THEN 0 ELSE f[Least(FrameNumMatches(f)) + 1].n

\* files.filter(...).sort((a, b) => aNum - bNum).map(...): the comparator is
\* called on every element once there are two of them, and it throws on a
\* name in which the regular expression finds no number.  A returned frame
\* path is kept as the number in its name.
sortFrames(listing) ==
    LET kept == SelectSeq(listing, IsFrameFile)
        sorted == StableSort(kept, [i \in 1..Len(kept) |-> frameNum(kept[i])])
    IN IF Len(kept) >= 2 /\ \E i \in 1..Len(kept) : FrameNumMatches(kept[i]) = {}
       THEN [threw |-> TRUE, frames |-> <<>>]
       ELSE [threw |-> FALSE, frames |-> [i \in 1..Len(sorted) |-> frameNum(sorted[i])]]

\* extractAllFrames: getFfmpegPath(), spawn ffmpeg -i videoPath -y frame_%d.jpg,
\* and on exit code 0 the listing of the directory.  An exception of the async
\* 'close' callback reaches neither resolve nor reject.
ExtractAllFrames ==
    /\ pc = "allFrames"
    /\ \E o \in ToolPathOutcomes :
         LET installed == toolInstalled \/ o = "downloaded"
         IN /\ toolInstalled' = installed
            /\ \E sp \in (IF o = "throw" THEN {"none"} ELSE SpawnOutcomes(installed)),
                  k \in 0..video.frameTotal :
                 LET d == [disk EXCEPT !.frames = @ \cup (1..k)]
                     done == effects \cup {"extractAllFrames", "getFfmpegPath"}
                                \cup (IF o = "ok" THEN {} ELSE {"autoDownload"})
                 IN /\ (sp = "exit0" => k = video.frameTotal)
                    /\ (sp \in {"none", "enoent"} => k = 0)
                    /\ disk' = d
                    /\ IF sp = "exit0"
                       THEN \E l \in Listings(DirNames(d)) :
                              LET r == sortFrames(l)
                              IN /\ frames' = IF r.threw THEN frames ELSE r.frames
                                 /\ pc' = IF r.threw THEN "hung" ELSE "persist"
                                 /\ effects' = done \cup (IF r.threw THEN {"listingThrew"}
                                                          ELSE {"sampled"})
                                 /\ UNCHANGED error
                       ELSE /\ Throw("Failed to extract all frames")
                            /\ effects' = done \cup {"frameFailure"}
                            /\ UNCHANGED frames
    /\ UNCHANGED added
    /\ UNCHANGED <<url, options, ffmpegService, videoUrls, page, clicked, downloadUrl,
                   isHLS, http, loopI, result, runs, tweetId, username, videoDir,
                   mainTweetVideos>>

\* new Date(): the clock of the model is the number of downloadVideo calls
\* made so far, so that a later run reads a later time.
Now == runs

\* The metadata object (without the fields that depend on the bytes of the
\* file), fs.writeFile(metadata.json) and the return.
PersistMetadata ==
    /\ pc = "persist"
    /\ LET metadata == [written |-> TRUE, tweet_id |-> tweetId, username |-> username,
                        frame_count |-> Len(frames), downloaded_at |-> Now]
       IN /\ disk' = [disk EXCEPT !.metadata = metadata]
          /\ result' = [returned |-> TRUE,
                        videoPath |-> videoDir \o <<SLASH, L("video.mp4")>>,
                        frames |-> frames,
                        metadata |-> metadata]
    /\ effects' = effects \cup {"writeMetadata"}
    /\ pc' = "done"
    /\ UNCHANGED added
    /\ UNCHANGED <<url, options, ffmpegService, toolInstalled, videoUrls, page, clicked,
                   downloadUrl, isHLS, http, frames, loopI, error, runs, tweetId, username,
                   videoDir, mainTweetVideos>>

-----------------------------------------------------------------------------
(* The download endpoint of the plugin entry                               *)

\* '/api/video-download/files/'
MountPrefix == <<SLASH, L("api"), SLASH, L("video-download"), SLASH, L("files"), SLASH>>

\* app.use('/api/video-download/files', express.static(VIDEOS_DIR)): the file
\* a request path is answered from (<<>> when the route does not apply).
staticFile(path) ==
    IF Len(path) > Len(MountPrefix) /\ SubSeq(path, 1, Len(MountPrefix)) = MountPrefix
    THEN VIDEOS_DIR \o <<SLASH>> \o SubSeq(path, Len(MountPrefix) + 1, Len(path))
    ELSE <<>>

\* The .then and .catch callbacks of the downloadVideo call: videoDir is
\* `${result.metadata.username}_${result.metadata.tweet_id}`, and frame i
\* (counted from 0) gets the URL of frame_${i + 1}.jpg.
Respond ==
    /\ pc \in {"done", "failed"}
    /\ ~res.sent
    /\ res' = IF pc = "done"
              THEN LET dir == result.metadata.username \o <<L("_"), result.metadata.tweet_id>>
                   IN [sent |-> TRUE,
                       status |-> 200,
                       error |-> "",
                       videoUrl |-> MountPrefix \o dir \o <<SLASH>> \o VideoFile,
                       frameUrls |-> [j \in 1..Len(result.frames) |->
                                        MountPrefix \o dir \o <<SLASH>>
                                            \o frameName((j - 1) + 1)]]
              ELSE [sent |-> TRUE, status |-> 500, error |-> error, videoUrl |-> <<>>,
                    frameUrls |-> <<>>]
    /\ UNCHANGED <<url, options, ffmpegService, toolInstalled, pc, videoUrls, page, clicked,
                   downloadUrl, isHLS, http, disk, frames, loopI, result, error, effects,
                   runs, tweetId, username, videoDir, mainTweetVideos, video, positions,
                   parked, fs, req>>

\* Positions where /x\.com\/[^/]+\/status\/\d+/ matches.
EndpointUrlMatches(u) ==
    { i \in 1..Len(u) : /\ u[i].k = "x.com"
                         /\ i + 1 <= Len(u)
                         /\ u[i + 1] = SLASH
                         /\ RunEnd(u, i + 2) >= i + 2
                         /\ RunEnd(u, i + 2) + 4 <= Len(u)
                         /\ u[RunEnd(u, i + 2) + 1] = SLASH
                         /\ u[RunEnd(u, i + 2) + 2].k = "status"
                         /\ u[RunEnd(u, i + 2) + 3] = SLASH
                         /\ IsNum(u[RunEnd(u, i + 2) + 4]) }

\* The error texts of the two longer responses.
ServiceMissing ==
    "Browser service not available. Make sure void-server core is properly configured."
NotAuthenticated ==
    "Browser profile not authenticated. Go to Browsers page to authenticate."

\* return res.status(status).json({ success: false, error })
Reject(status, message) ==
    /\ res' = [sent |-> TRUE, status |-> status, error |-> message, videoUrl |-> <<>>,
               frameUrls |-> <<>>]
    /\ req' = [req EXCEPT !.at = "returned"]

\* Faulty variant: the format of the url is tested before the profile id.
GuardsFormatFirst ==
    /\ req.at = "guards"
    /\ IF url = <<>> THEN Reject(400, "URL is required")
       ELSE IF EndpointUrlMatches(url) = {} THEN Reject(400, "Invalid X.com URL format")
       ELSE IF ~req.browserId THEN Reject(400, "Browser profile ID is required")
       ELSE IF req.browserService = "null" THEN Reject(500, ServiceMissing)
       ELSE /\ req' = [req EXCEPT !.at = "lookup"]
            /\ UNCHANGED res
    /\ UNCHANGED <<url, options, ffmpegService, toolInstalled, pc, videoUrls, page, clicked,
                   downloadUrl, isHLS, http, disk, frames, loopI, result, error, effects,
                   runs, tweetId, username, videoDir, mainTweetVideos, video, positions,
                   parked, fs>>

\* The handler up to its first await: the tests of url, browserId, the format
\* of the url and browserService.  An absent or empty url is <<>>.
Guards ==
    /\ req.at = "guards"
    /\ IF url = <<>> THEN Reject(400, "URL is required")
       ELSE IF ~req.browserId THEN Reject(400, "Browser profile ID is required")
       ELSE IF EndpointUrlMatches(url) = {} THEN Reject(400, "Invalid X.com URL format")
       ELSE IF req.browserService = "null" THEN Reject(500, ServiceMissing)
       ELSE /\ req' = [req EXCEPT !.at = "lookup"]
            /\ UNCHANGED res
    /\ UNCHANGED <<url, options, ffmpegService, toolInstalled, pc, videoUrls, page, clicked,
                   downloadUrl, isHLS, http, disk, frames, loopI, result, error, effects,
                   runs, tweetId, username, videoDir, mainTweetVideos, video, positions,
                   parked, fs>>

\* const { frameCount = 5 } = req.body
bodyFrameCount == IF req.frameCount = Absent THEN N(5) ELSE req.frameCount

\* await browserService.getBrowserStatus(browserId), the tests of its result
\* and the call of downloadVideo.  The handler has no try/catch: when the
\* lookup rejects, the promise of the async handler rejects, which a router
\* that forwards rejections answers with its error response and a router
\* that does not leaves unanswered.
GetBrowserStatus ==
    /\ req.at = "lookup"
    /\ IF req.lookup.rejects
       THEN /\ \E forwards \in BOOLEAN :
                 res' = IF forwards
                        THEN [sent |-> TRUE, status |-> 500, error |-> "Internal Server Error",
                              videoUrl |-> <<>>, frameUrls |-> <<>>]
                        ELSE res
            /\ req' = [req EXCEPT !.at = "rejected"]
            /\ UNCHANGED <<url, options, ffmpegService, toolInstalled, pc, videoUrls, page,
                           clicked, downloadUrl, isHLS, http, disk, frames, loopI, result,
                           error, effects, runs, tweetId, username, videoDir,
                           mainTweetVideos, video, positions, parked, fs>>
       ELSE IF ~req.lookup.success
       THEN /\ Reject(404, "Browser profile not found")
            /\ UNCHANGED <<url, options, ffmpegService, toolInstalled, pc, videoUrls, page,
                           clicked, downloadUrl, isHLS, http, disk, frames, loopI, result,
                           error, effects, runs, tweetId, username, videoDir,
                           mainTweetVideos, video, positions, parked, fs>>
       ELSE IF ~req.lookup.authenticated
       THEN /\ Reject(401, NotAuthenticated)
            /\ UNCHANGED <<url, options, ffmpegService, toolInstalled, pc, videoUrls, page,
                           clicked, downloadUrl, isHLS, http, disk, frames, loopI, result,
                           error, effects, runs, tweetId, username, videoDir,
                           mainTweetVideos, video, positions, parked, fs>>
       ELSE /\ pc = "idle"
            /\ BeginRun(bodyFrameCount)
            /\ req' = [req EXCEPT !.at = "download"]

-----------------------------------------------------------------------------
(* Specifications                                                          *)

Next ==
    \/ \E opt \in FrameSpecs : CallDownloadVideo(opt)
    \/ EnsureFfmpeg
    \/ ParseInput
    \/ MakeDirs
    \/ GetBrowserContext
    \/ NewPage
    \/ \E r \in PageResponses : OnResponse(r)
    \/ Goto
    \/ Settle
    \/ FindPlayButton
    \/ ClickPlay
    \/ WaitAfterClick
    \/ ClosePage
    \/ RemuxPlaylist
    \/ HttpRequest
    \/ HttpBody
    \/ Probe
    \/ ExtractFramesStart
    \/ ExtractFrame
    \/ ExtractAllFrames
    \/ PersistMetadata
    \/ Respond

\* One run of downloadVideo for a post whose directory does not exist yet.
Spec == Init /\ [][Next]_vars

\* Up to MaxRuns runs, one after the other, for the same post.
NextRuns ==
    \/ Next
    \/ \E opt \in FrameSpecs : CallAgain(opt)

SpecRuns == Init /\ [][NextRuns]_vars

\* A caller repeats a successful download of the post with the same frame
\* specification.
CallSame ==
    /\ pc = "done"
    /\ runs < MaxRuns
    /\ BeginRun(options)
    /\ UNCHANGED req

InitRerun ==
    /\ Init
    /\ url = PostUrl("x.com", "example", "status", 10)
    /\ ffmpegService = "null"
    /\ toolInstalled

NextRerun ==
    \/ Next
    \/ CallSame

\* Up to MaxRuns runs for the same post with the same frame specification,
\* each started after the one before has succeeded.
SpecRerun == InitRerun /\ [][NextRerun]_vars

-----------------------------------------------------------------------------
(* Requests to the download endpoint                                       *)

\* The url of a request body: absent, a post URL, a URL of another form, and
\* a path that holds status/<digits> without the host.
EndpointUrls ==
    { <<>>,
      PostUrl("x.com", "example", "status", 10),
      PostUrl("x.com", "example", "photo", 10),
      Join(<< <<L("status")>>, <<N(10)>> >>) }

Lookups ==
    { [rejects |-> TRUE, success |-> FALSE, authenticated |-> FALSE] }
        \cup [rejects : {FALSE}, success : BOOLEAN, authenticated : BOOLEAN]

\* A request has reached the handler; the directory of the post does not
\* exist yet.
InitEndpoint ==
    \E u \in EndpointUrls, id \in BOOLEAN, service \in {"null", "service"},
       lookup \in Lookups, count \in FrameSpecs :
        /\ url = u
        /\ ffmpegService = "null"
        /\ toolInstalled = TRUE
        /\ options = Absent
        /\ pc = "idle"
        /\ videoUrls = <<>>
        /\ page = "none"
        /\ clicked = 0
        /\ downloadUrl = <<>>
        /\ isHLS = FALSE
        /\ http = NoHttp
        /\ disk = EmptyDisk
        /\ frames = <<>>
        /\ loopI = 0
        /\ result = NoResult
        /\ error = ""
        /\ effects = {}
        /\ runs = 0
        /\ tweetId = Null
        /\ username = <<>>
        /\ videoDir = <<>>
        /\ mainTweetVideos = <<>>
        /\ video = Video(6500, 1)
        /\ positions = <<>>
        /\ res = NoRes
        /\ parked = <<>>
        /\ fs = <<>>
        /\ req = [at |-> "guards", browserId |-> id, browserService |-> service,
                  lookup |-> lookup, frameCount |-> count]

NextEndpoint ==
    \/ Guards
    \/ GetBrowserStatus
    \/ EnsureFfmpeg
    \/ ParseInput
    \/ MakeDirs
    \/ GetBrowserContext
    \/ NewPage
    \/ \E r \in PageResponses : OnResponse(r)
    \/ Goto
    \/ Settle
    \/ FindPlayButton
    \/ ClickPlay
    \/ WaitAfterClick
    \/ ClosePage
    \/ RemuxPlaylist
    \/ HttpRequest
    \/ HttpBody
    \/ Probe
    \/ ExtractFramesStart
    \/ ExtractFrame
    \/ ExtractAllFrames
    \/ PersistMetadata
    \/ Respond

SpecEndpoint == InitEndpoint /\ [][NextEndpoint]_vars

-----------------------------------------------------------------------------
(* Two calls of downloadVideo at a time                                    *)

\* The locals of the call that is running.
RunLocals ==
    [url |-> url, options |-> options, pc |-> pc, videoUrls |-> videoUrls,
     page |-> page, clicked |-> clicked, downloadUrl |-> downloadUrl, isHLS |-> isHLS,
     http |-> http, frames |-> frames, loopI |-> loopI, result |-> result,
     error |-> error, effects |-> effects, tweetId |-> tweetId, username |-> username,
     videoDir |-> videoDir, mainTweetVideos |-> mainTweetVideos, video |-> video,
     positions |-> positions, res |-> res]

\* A call that has not started yet.
FreshRun(u, v) ==
    [url |-> u, options |-> Absent, pc |-> "idle", videoUrls |-> <<>>,
     page |-> "none", clicked |-> 0, downloadUrl |-> <<>>, isHLS |-> FALSE,
     http |-> NoHttp, frames |-> <<>>, loopI |-> 0, result |-> NoResult,
     error |-> "", effects |-> {}, tweetId |-> Null, username |-> <<>>,
     videoDir |-> <<>>, mainTweetVideos |-> <<>>, video |-> v,
     positions |-> <<>>, res |-> NoRes]

\* The directory that a call for the url works in.
dirOf(u) == Join(<<thisVIDEOS_DIR, videoDirName(extractUsername(u), extractTweetId(u))>>)

\* Node runs one call at a time and changes to the other one at an await:
\* the locals of the running call are put aside, those of the suspended call
\* come back, and the running call sees the directory of its own path.
Switch ==
    /\ Len(parked) = 1
    /\ parked' = <<RunLocals>>
    /\ url' = parked[1].url
    /\ options' = parked[1].options
    /\ pc' = parked[1].pc
    /\ videoUrls' = parked[1].videoUrls
    /\ page' = parked[1].page
    /\ clicked' = parked[1].clicked
    /\ downloadUrl' = parked[1].downloadUrl
    /\ isHLS' = parked[1].isHLS
    /\ http' = parked[1].http
    /\ frames' = parked[1].frames
    /\ loopI' = parked[1].loopI
    /\ result' = parked[1].result
    /\ error' = parked[1].error
    /\ effects' = parked[1].effects
    /\ tweetId' = parked[1].tweetId
    /\ username' = parked[1].username
    /\ videoDir' = parked[1].videoDir
    /\ mainTweetVideos' = parked[1].mainTweetVideos
    /\ video' = parked[1].video
    /\ positions' = parked[1].positions
    /\ res' = parked[1].res
    /\ fs' = [fs EXCEPT ![dirOf(url)] = disk]
    /\ disk' = fs'[dirOf(parked[1].url)]
    /\ UNCHANGED <<ffmpegService, toolInstalled, runs, req>>

\* Two different posts of one author.
ConcurrentUrls == << PostUrl("x.com", "example", "status", 10),
                     PostUrl("x.com", "example", "status", 12) >>

\* What the page of a post delivers: the playlist of its video.
PlaylistOf(u) ==
    Resp(MediaUrl("ext_tw_video", extractTweetId(u).n - 1, 4, 3, ".m3u8"), <<>>, 200)

\* The frame specifications of the two requests: a count and 'all'.
frameCountOf(u) == IF u = ConcurrentUrls[1] THEN N(1) ELSE All

\* Two requests have reached the call of downloadVideo.
InitConcurrent ==
    \E v1 \in {Video(6500, 1)}, v2 \in {Video(6500, MaxVideoFrames)} :
        /\ url = ConcurrentUrls[1]
        /\ ffmpegService = "null"
        /\ toolInstalled = TRUE
        /\ options = Absent
        /\ pc = "idle"
        /\ videoUrls = <<>>
        /\ page = "none"
        /\ clicked = 0
        /\ downloadUrl = <<>>
        /\ isHLS = FALSE
        /\ http = NoHttp
        /\ disk = EmptyDisk
        /\ frames = <<>>
        /\ loopI = 0
        /\ result = NoResult
        /\ error = ""
        /\ effects = {}
        /\ runs = 0
        /\ tweetId = Null
        /\ username = <<>>
        /\ videoDir = <<>>
        /\ mainTweetVideos = <<>>
        /\ video = v1
        /\ positions = <<>>
        /\ res = NoRes
        /\ parked = <<FreshRun(ConcurrentUrls[2], v2)>>
        /\ fs = [d \in {dirOf(ConcurrentUrls[1]), dirOf(ConcurrentUrls[2])} |-> EmptyDisk]
        /\ req = NoReq

NextConcurrent ==
    \/ Switch
    \/ CallDownloadVideo(frameCountOf(url))
    \/ EnsureFfmpeg
    \/ ParseInput
    \/ MakeDirs
    \/ GetBrowserContext
    \/ NewPage
    \/ OnResponse(PlaylistOf(url))
    \/ Goto
    \/ Settle
    \/ FindPlayButton
    \/ ClickPlay
    \/ WaitAfterClick
    \/ ClosePage
    \/ RemuxPlaylist
    \/ Probe
    \/ ExtractFramesStart
    \/ ExtractFrame
    \/ ExtractAllFrames
    \/ PersistMetadata
    \/ Respond

SpecConcurrent == InitConcurrent /\ [][NextConcurrent]_vars

-----------------------------------------------------------------------------
(* The parsing of bounded URLs                                             *)

MaxSegments == 4      \* path segments of an enumerated URL

Segments ==
    { <<>>, <<L("x.com")>>, <<L("status")>>, <<N(7)>>, <<L("example")>>,
      <<L("my"), L("status")>>, <<N(7), L("b")>> }

BoundedUrls ==
    { Join(segs) : segs \in UNION { [1..n -> Segments] : n \in 1..MaxSegments } }

\* A run that has reached the parsing of its url.
RunAt(u, at) ==
    /\ url = u
    /\ ffmpegService = "null"
    /\ toolInstalled = TRUE
    /\ options = N(0)
    /\ pc = at
    /\ videoUrls = <<>>
    /\ page = "none"
    /\ clicked = 0
    /\ downloadUrl = <<>>
    /\ isHLS = FALSE
    /\ http = NoHttp
    /\ disk = EmptyDisk
    /\ frames = <<>>
    /\ loopI = 0
    /\ result = NoResult
    /\ error = ""
    /\ effects = {}
    /\ runs = 1
    /\ tweetId = Null
    /\ username = <<>>
    /\ videoDir = <<>>
    /\ mainTweetVideos = <<>>
    /\ video = Video(6500, 1)
    /\ positions = <<>>
    /\ res = NoRes
    /\ parked = <<>>
    /\ fs = <<>>
    /\ req = NoReq

InitParse == \E u \in BoundedUrls : RunAt(u, "parse")

NextParse == ParseInput \/ MakeDirs

SpecParse == InitParse /\ [][NextParse]_vars

-----------------------------------------------------------------------------
(* The resolution of bounded response logs                                 *)

MaxLog == 3           \* responses in an enumerated log

ResolveUrls == { PostUrl("x.com", "example", "status", 10),
                 PostUrl("x.com", "example", "status", 12),
                 PostUrl("x.com", "example", "status", 0) }

\* "https://video.twimg.com/<kind>/<id>/pl/avc1/f.m3u8"
MarkerUrl(kind, id) ==
    Join(<< <<L("https:")>>, <<>>, <<L("video.twimg.com")>>, <<L(kind)>>, <<N(id)>>,
            <<L("pl")>>, <<L("avc1")>>, <<L("f"), L(".m3u8")>> >>)

ResolveResponses ==
    { Resp(MediaUrl("ext_tw_video", 9, 4, 3, ".m3u8"), <<>>, 200),
      Resp(MediaUrl("ext_tw_video", 9, 8, 6, ".mp4"), VideoType, 200),
      Resp(MarkerUrl("ext_tw_video", 12), <<>>, 200),
      Resp(MediaUrl("amplify_video", 11, 6, 4, ".m3u8"), <<>>, 200),
      Resp(MediaUrl("amplify_video", 11, 4, 3, ".mp4"), VideoType, 200),
      Resp(MediaUrl("amplify_video", 12, 9, 9, ".mp4"), VideoType, 200),
      Resp(MediaUrl("amplify_video", 11, 2, 2, ".m3u8"), <<>>, 200),
      Resp(MediaUrl("ext_tw_video", 12, 9, 9, ".mp4"), VideoType, 404),
      Resp(MediaUrl("tweet_video", 5, 8, 6, ".m3u8"), <<>>, 403) }

BoundedLogs ==
    UNION { [1..n -> { r \in ResolveResponses : IsVideoResponse(r) }] : n \in 0..MaxLog }

\* An attempt whose observation window ends with the log `log`.
InitResolve ==
    \E u \in ResolveUrls, log \in BoundedLogs :
        /\ url = u
        /\ ffmpegService = "null"
        /\ toolInstalled = TRUE
        /\ options = N(0)
        /\ pc = "close"
        /\ videoUrls = log
        /\ page = "open"
        /\ clicked = 0
        /\ downloadUrl = <<>>
        /\ isHLS = FALSE
        /\ http = NoHttp
        /\ disk = [EmptyDisk EXCEPT !.dir = TRUE]
        /\ frames = <<>>
        /\ loopI = 0
        /\ result = NoResult
        /\ error = ""
        /\ effects = {"mkdir", "context", "goto"}
        /\ runs = 1
        /\ tweetId = extractTweetId(u)
        /\ username = extractUsername(u)
        /\ videoDir = Join(<<thisVIDEOS_DIR,
                              videoDirName(extractUsername(u), extractTweetId(u))>>)
        /\ mainTweetVideos = <<>>
        /\ video = Video(6500, 1)
        /\ positions = <<>>
        /\ res = NoRes
        /\ parked = <<>>
        /\ fs = <<>>
        /\ req = NoReq

NextResolve == ClosePage

SpecResolve == InitResolve /\ [][NextResolve]_vars

\* The resolution of the bounded logs of one post and the retrieval of the
\* chosen stream.
InitRetrieve ==
    /\ url = PostUrl("x.com", "example", "status", 12)
    /\ InitResolve

NextRetrieve == ClosePage \/ RemuxPlaylist \/ HttpRequest \/ HttpBody

SpecRetrieve == InitRetrieve /\ [][NextRetrieve]_vars

-----------------------------------------------------------------------------
(* The progressive-file transfer                                           *)

\* The URLs downloadFileHttp is called with: a file of either scheme.
FileUrls ==
    { Join(<< <<L(scheme)>>, <<>>, <<L("video.twimg.com")>>, <<L("ext_tw_video")>>, <<N(9)>>,
              <<L("vid")>>, <<N(8), L("x"), N(6)>>, <<L("f"), L(".mp4")>> >>)
        : scheme \in {"https:", "http:"} }

\* A run at the call of downloadFileHttp(downloadUrl, outputPath); the output
\* file may exist from an earlier run.
InitHttp ==
    \E u \in FileUrls, earlier \in {"absent", "complete"} :
        /\ url = PostUrl("x.com", "example", "status", 10)
        /\ ffmpegService = "null"
        /\ toolInstalled = TRUE
        /\ options = N(0)
        /\ pc = "http"
        /\ videoUrls = <<Resp(u, VideoType, 200)>>
        /\ page = "closed"
        /\ clicked = 0
        /\ downloadUrl = u
        /\ isHLS = FALSE
        /\ http = NoHttp
        /\ disk = [EmptyDisk EXCEPT !.dir = TRUE, !.video = earlier]
        /\ frames = <<>>
        /\ loopI = 0
        /\ result = NoResult
        /\ error = ""
        /\ effects = {"mkdir", "context", "goto", "selected"}
        /\ runs = 1
        /\ tweetId = extractTweetId(url)
        /\ username = extractUsername(url)
        /\ videoDir = Join(<<thisVIDEOS_DIR, videoDirName(username, tweetId)>>)
        /\ mainTweetVideos = <<Resp(u, VideoType, 200)>>
        /\ video = Video(6500, 1)
        /\ positions = <<>>
        /\ res = NoRes
        /\ parked = <<>>
        /\ fs = <<>>
        /\ req = NoReq

NextHttp == HttpRequest \/ HttpBody

SpecHttp == InitHttp /\ [][NextHttp]_vars

\* Node delivers every pending network event: a request that was issued gets
\* its response or its error, and a body that is being piped gets one of its
\* stream events.
SpecHttpLive == SpecHttp /\ WF_vars(NextHttp)

-----------------------------------------------------------------------------
(* The frame sampling of bounded counts and durations                      *)

MaxSamples == 5       \* largest frame count of an enumerated sampling

\* Durations in hundredths of a second: 0, below and at the half second that
\* the last instant is pulled back by, and above it.
Durations == {0, 25, 50, 60, 100, 6500}

\* A run whose video has been retrieved and probed, at the call of
\* extractFrames(videoPath, videoDir, frameCount).
InitSample ==
    \E n \in 1..MaxSamples, d \in Durations :
        /\ url = PostUrl("x.com", "example", "status", 10)
        /\ ffmpegService = "null"
        /\ toolInstalled = TRUE
        /\ options = N(n)
        /\ pc = "extractFrames"
        /\ videoUrls = <<>>
        /\ page = "closed"
        /\ clicked = 0
        /\ downloadUrl = <<>>
        /\ isHLS = FALSE
        /\ http = NoHttp
        /\ disk = [EmptyDisk EXCEPT !.dir = TRUE, !.video = "complete"]
        /\ frames = <<>>
        /\ loopI = 0
        /\ result = NoResult
        /\ error = ""
        /\ effects = {"mkdir", "context", "goto", "selected", "download", "retrieved",
                      "probe", "probed"}
        /\ runs = 1
        /\ tweetId = extractTweetId(url)
        /\ username = extractUsername(url)
        /\ videoDir = Join(<<thisVIDEOS_DIR, videoDirName(username, tweetId)>>)
        /\ mainTweetVideos = <<>>
        /\ video = Video(d, 1)
        /\ positions = <<>>
        /\ res = NoRes
        /\ parked = <<>>
        /\ fs = <<>>
        /\ req = NoReq

NextSample == ExtractFramesStart \/ ExtractFrame

SpecSample == InitSample /\ [][NextSample]_vars

-----------------------------------------------------------------------------
(* The whole-file frame dump into bounded directories                      *)

\* A file of the directory that downloadVideo did not write: its name passes
\* the filter of extractAllFrames and holds no number.
ForeignFiles == { <<L("frame_"), L("final"), L(".jpg")>> }

\* Frame files an earlier run has left in the directory.
EarlierFrames == { {}, {9, 10} }

\* A run whose video has been retrieved and probed, at the call of
\* extractAllFrames(videoPath, videoDir).
InitListing ==
    \E old \in EarlierFrames, other \in SUBSET ForeignFiles, n \in 1..MaxVideoFrames :
        /\ url = PostUrl("x.com", "example", "status", 10)
        /\ ffmpegService \in {"null", "service"}
        /\ toolInstalled \in BOOLEAN
        /\ options = All
        /\ pc = "allFrames"
        /\ videoUrls = <<>>
        /\ page = "closed"
        /\ clicked = 0
        /\ downloadUrl = <<>>
        /\ isHLS = FALSE
        /\ http = NoHttp
        /\ disk = [EmptyDisk EXCEPT !.dir = TRUE, !.video = "complete",
                                    !.frames = old, !.other = other]
        /\ frames = <<>>
        /\ loopI = 0
        /\ result = NoResult
        /\ error = ""
        /\ effects = {"mkdir", "context", "goto", "selected", "download", "retrieved",
                      "probe", "probed"}
        /\ runs = 1
        /\ tweetId = extractTweetId(url)
        /\ username = extractUsername(url)
        /\ videoDir = Join(<<thisVIDEOS_DIR, videoDirName(username, tweetId)>>)
        /\ mainTweetVideos = <<>>
        /\ video = Video(6500, n)
        /\ positions = <<>>
        /\ res = NoRes
        /\ parked = <<>>
        /\ fs = <<>>
        /\ req = NoReq

NextListing == ExtractAllFrames \/ PersistMetadata \/ Respond

SpecListing == InitListing /\ [][NextListing]_vars

-----------------------------------------------------------------------------
(* Properties                                                              *)

\* The run has left page.close() behind with a non-empty log.
Resolved == page = "closed" /\ Len(mainTweetVideos) > 0

\* C1: when the log holds Media Identity Groups, the pool is the group whose
\* media id is closest to the post id, and of two groups at the same distance
\* it is the one whose id is not above the post id, whatever the order in
\* which the groups were first seen.
C1_ClosestGroupTieNonNegative ==
    (Resolved /\ Len(videoGroups(videoUrls)) > 0 /\ extractTweetId(url) # Null) =>
        LET P == extractTweetId(url).n
            sel == getVideoId(mainTweetVideos[1].url)
            groups == videoGroups(videoUrls)
        IN /\ sel # Null
           /\ \A i \in 1..Len(mainTweetVideos) : getVideoId(mainTweetVideos[i].url) = sel
           /\ \A g \in 1..Len(groups) :
                \/ Abs(P - sel.n) < Abs(P - groups[g].id.n)
                \/ /\ Abs(P - sel.n) = Abs(P - groups[g].id.n)
                   /\ (sel.n <= P \/ groups[g].id.n > P)

\* C2: if the pool holds a status-200 .m3u8 response with a /WxH/ segment or
\* the pl/avc1 marker, the chosen URL is a playlist URL of the pool and the
\* strategy is the playlist remux, also when a progressive file of the pool
\* has the larger resolution area.
C2_PlaylistPreferred ==
    (Resolved /\ \E i \in 1..Len(mainTweetVideos) :
                    LET v == mainTweetVideos[i]
                    IN /\ v.status = 200
                       /\ Includes(v.url, ".m3u8")
                       /\ \/ SlashResMatches(v.url) # {}
                          \/ IncludesSeq(v.url, <<L("pl"), SLASH, L("avc1")>>))
    => /\ pc = "hls"
       /\ isHLS
       /\ Includes(downloadUrl, ".m3u8")
       /\ \E i \in 1..Len(mainTweetVideos) :
            mainTweetVideos[i].url = downloadUrl /\ mainTweetVideos[i].status = 200

\* A playlist was chosen although a progressive file of the pool names more pixels.
C2_Witness ==
    /\ Resolved
    /\ pc = "hls"
    /\ \E i \in 1..Len(mainTweetVideos) :
         /\ IsMp4Candidate(mainTweetVideos[i])
         /\ Mp4Pixels(mainTweetVideos[i].url) > HlsPixels(downloadUrl)

NoExtraction == effects \cap {"extractFrames", "extractAllFrames"} = {}

\* C3 as stated: with frame specification 0 or absent, a successful run
\* returns no frames, writes frame_count 0 and never calls extractFrames or
\* extractAllFrames.
C3_ZeroOrAbsentDisablesFrames ==
    (pc # "idle" /\ options \in {N(0), Absent}) =>
        /\ NoExtraction
        /\ (pc = "done" => /\ result.frames = <<>>
                           /\ result.metadata.frame_count = 0)

\* C3 amended: with frame specification 0 a successful run returns no frames,
\* writes frame_count 0 and never calls extractFrames or extractAllFrames; an
\* absent frame specification is the default of 5 frames.
C3_ZeroDisablesAbsentIsDefault ==
    /\ (pc # "idle" /\ options = N(0)) =>
          /\ NoExtraction
          /\ (pc = "done" => /\ result.returned
                             /\ result.frames = <<>>
                             /\ result.metadata.frame_count = 0
                             /\ disk.metadata.frame_count = 0)
    /\ (pc = "done" /\ options = Absent) =>
          /\ "extractFrames" \in effects
          /\ Len(result.frames) = DefaultFrameCount
          /\ result.metadata.frame_count = DefaultFrameCount

C3_Witness ==
    /\ pc = "done"
    /\ options = N(0)
    /\ result.returned
    /\ disk.video = "complete"

\* C4: after any sequence of settled runs against the directory, an existing
\* metadata.json has the frame_count of the frame files in the directory.
C4_MetadataCountsFrameFiles ==
    (pc \in {"done", "failed"} /\ disk.metadata.written) =>
        disk.metadata.frame_count = Cardinality(disk.frames)

StageFailures == {"retrieveFailure", "probeFailure", "frameFailure"}

C6_NoPartialFileAfterFailure ==
    /\ "retrieved" \in effects => disk.video = "complete"
    /\ (pc = "failed" /\ "retrieveFailure" \in effects) => disk.video # "partial"

NetworkEffects == {"context", "goto", "download"}

\* C7: a run that needs ffmpeg (frames requested, or the playlist strategy)
\* while ffmpeg is unavailable fails before the browser context is requested,
\* before navigation and before any download.
C7_ToolCheckedBeforeNetwork ==
    (pc # "idle" /\ ~toolInstalled /\ (shouldExtractFrames \/ isHLS)) =>
        effects \cap NetworkEffects = {}

\* C8: for a url without a post id the run fails with the invalid-URL error
\* and has done nothing before: no ffmpeg download, no browser context, no
\* navigation, no directory, no download.
C8_InvalidUrlFailsFirst ==
    (pc # "idle" /\ extractTweetId(url) = Null) =>
        /\ effects \cap (NetworkEffects \cup {"autoDownload", "mkdir"}) = {}
        /\ (pc = "failed" => error = "Invalid X.com URL - could not extract tweet ID")

\* The first "/status/<digits>" of a url, as the position of its first "/".
StatusSegments(u) ==
    { i \in 1..Len(u) : /\ i + 3 <= Len(u)
                         /\ u[i] = SLASH
                         /\ u[i + 1].k = "status"
                         /\ u[i + 2] = SLASH
                         /\ IsNum(u[i + 3]) }

\* Start of the segment that ends at position e (e + 1 when it is empty).
RECURSIVE SegmentStart(_, _)
SegmentStart(u, e) ==
    IF e < 1 \/ u[e] = SLASH THEN e + 1 ELSE SegmentStart(u, e - 1)

Parsed == pc \in {"mkdir", "context"}

\* C9 as stated: for a url with a /status/<digits> segment the post id is a
\* run of digits, the author handle is the path segment right before /status/,
\* and the directory name is handle, "_", post id.
C9_HandleIsSegmentBeforeStatus ==
    (Parsed /\ StatusSegments(url) # {}) =>
        LET p == Least(StatusSegments(url))
        IN /\ IsNum(tweetId)
           /\ username = SubSeq(url, SegmentStart(url, p - 1), p - 1)
           /\ (pc = "context" =>
                 videoDir = thisVIDEOS_DIR \o <<SLASH>> \o username \o <<L("_"), tweetId>>)

\* The url reads ... x.com/<handle>/status/<digits> ... : its first "x.com" is
\* followed by "/", a non-empty segment, "/status/" and digits, and there is no
\* "status/<digits>" before.
XComPostUrl(u) ==
    /\ Includes(u, "x.com")
    /\ LET x == Least({ i \in 1..Len(u) : u[i].k = "x.com" })
           e == RunEnd(u, x + 2)
       IN /\ x + 1 <= Len(u)
          /\ u[x + 1] = SLASH
          /\ e >= x + 2
          /\ e + 4 <= Len(u)
          /\ u[e + 1] = SLASH
          /\ u[e + 2].k = "status"
          /\ u[e + 3] = SLASH
          /\ IsNum(u[e + 4])
          /\ \A j \in 1..(e + 1) :
                ~(u[j].k = "status" /\ u[j + 1] = SLASH /\ IsNum(u[j + 2]))

HandleOf(u) ==
    LET x == Least({ i \in 1..Len(u) : u[i].k = "x.com" })
    IN SubSeq(u, x + 2, RunEnd(u, x + 2))

PostIdOf(u) ==
    LET x == Least({ i \in 1..Len(u) : u[i].k = "x.com" })
    IN u[RunEnd(u, x + 2) + 4]

\* C9 amended: for a url that reads x.com/<handle>/status/<digits> the post id
\* is those digits and the author handle is <handle>; for a url with
\* status/<digits> in which no x.com/<segment>/status occurs the author handle
\* is "unknown"; the directory name is handle, "_", post id.
C9_HandleOfXComUrl ==
    /\ (Parsed /\ XComPostUrl(url)) =>
          /\ IsNum(tweetId)
          /\ tweetId = PostIdOf(url)
          /\ username = HandleOf(url)
    /\ (Parsed /\ ~Includes(url, "x.com")) => username = UNKNOWN
    /\ pc = "mkdir" => IsNum(tweetId)
    /\ pc = "context" =>
          videoDir = thisVIDEOS_DIR \o <<SLASH>> \o username \o <<L("_"), tweetId>>

C9_Witness ==
    /\ pc = "context"
    /\ XComPostUrl(url)
    /\ url = Join(<< <<L("x.com")>>, <<L("example")>>, <<L("status")>>, <<N(7), L("b")>> >>)
    /\ videoDir = thisVIDEOS_DIR \o <<SLASH, L("example"), L("_"), N(7)>>

\* C10: a successful run with a positive count N returns frame_1.jpg ..
\* frame_N.jpg in this order and writes metadata with frame_count N, the
\* parsed post id and the parsed author handle.
C10_CountModeResult ==
    (pc = "done" /\ IsNum(options) /\ options.n > 0) =>
        /\ result.returned
        /\ result.frames = [i \in 1..options.n |-> i]
        /\ 1..options.n \subseteq disk.frames
        /\ result.metadata.frame_count = options.n
        /\ result.metadata.tweet_id = N(10)
        /\ result.metadata.username = <<L("example")>>
        /\ disk.metadata = result.metadata

C10_Witness ==
    /\ pc = "done"
    /\ options = N(2)
    /\ result.frames = <<1, 2>>
    /\ disk.metadata.frame_count = 2

\* C11: in count mode with count N and duration D the sample instants are
\* (i / N) * D for i = 1 .. N - 1 and the last one is max(0, D - 0.5); for
\* D = 65.00 and N = 5 they are 13.0, 26.0, 39.0, 52.0, 64.5.
C11_CountModeInstants ==
    ("extractFrames" \in effects /\ pc \in {"frameLoop", "persist"}) =>
        LET count == frameCount.n
            D == video.duration
        IN /\ Len(positions) = count
           /\ \A i \in 1..(count - 1) : positions[i] = Frac(i * D, count)
           /\ positions[count] = IF D - PullBack < 0 THEN Frac(0, 1)
                                 ELSE Frac(D - PullBack, 1)
           /\ (D = 6500 /\ count = 5) =>
                 positions = <<Frac(1300, 1), Frac(2600, 1), Frac(3900, 1),
                               Frac(5200, 1), Frac(6450, 1)>>

\* Five frames were taken from the video of 65.00 seconds.
C11_Witness ==
    /\ pc = "persist"
    /\ options = N(5)
    /\ video.duration = 6500
    /\ Len(frames) = 5
    /\ positions[5] = Frac(6450, 1)

\* The frames returned in all mode are the frame files of the directory in
\* strictly increasing order of their numbers.
AllFramesInOrder ==
    ("sampled" \in effects /\ options = All) =>
        /\ \A i, j \in 1..Len(frames) : i < j => frames[i] < frames[j]
        /\ { frames[i] : i \in 1..Len(frames) } = disk.frames

\* C12: in all mode, for every order of the directory listing, the frame
\* files are returned in strictly increasing order of their numbers (frame_10
\* behind frame_9), and the call settles whatever the directory holds.
C12_AllFramesSortedAndSettles ==
    /\ AllFramesInOrder
    /\ "extractAllFrames" \in effects => pc # "hung"

\* C13: after a successful download through the endpoint, the video and the
\* frames lie under the directory the static route serves, and the videoUrl
\* and the frameUrls of the response are answered from the files written.
C13_ServedFromWrittenDirectory ==
    (res.sent /\ res.status = 200) =>
        /\ SubSeq(videoDir, 1, Len(VIDEOS_DIR)) = VIDEOS_DIR
        /\ staticFile(res.videoUrl) = result.videoPath
        /\ Len(res.frameUrls) = Len(result.frames)
        /\ \A i \in 1..Len(res.frameUrls) :
              staticFile(res.frameUrls[i])
                  = videoDir \o <<SLASH>> \o frameName(result.frames[i])

\* The frame files a successful run with the frame specification leaves.
FramesOfRun ==
    IF frameCount = All THEN 1..video.frameTotal ELSE 1..frameCount.n

\* The directory of the post after a successful run that wrote its metadata
\* at time t into a directory that was empty or held the files of such a run.
DirectoryAfterRun(t) ==
    [dir |-> TRUE,
     video |-> "complete",
     frames |-> FramesOfRun,
     metadata |-> [written |-> TRUE, tweet_id |-> extractTweetId(url),
                   username |-> extractUsername(url),
                   frame_count |-> Cardinality(FramesOfRun), downloaded_at |-> t],
     other |-> {}]

RedirectBound ==
    /\ http.requests <= MaxRedirects + 1
    /\ error = "Too many redirects" <=>
          (pc = "failed" /\ http.redirectCount = MaxRedirects + 1)

\* C15: downloadFileHttp follows a redirect chain of up to 10 hops to its
\* final response (every hop within the bound is followed by the request to
\* its target), fails with the too-many-redirects error for a longer chain,
\* and never issues more than 11 requests.
C15_RedirectsFollowedUpToBound ==
    /\ RedirectBound
    /\ (http.requests > 0 /\ http.redirectCount <= MaxRedirects /\ pc # "http") =>
          http.requests = http.redirectCount + 1

\* The frame files that a successful call with locals r leaves.
FramesOf(r) ==
    IF r.options = All THEN 1..r.video.frameTotal
    ELSE IF r.options = Absent THEN 1..DefaultFrameCount
    ELSE 1..r.options.n

\* The call with locals r and its directory d are as they are when the call
\* runs alone: the log holds responses of its own page only, every file of
\* the directory was written by this call, and a result is the result for
\* its own post, with exactly its own files in the directory.
AsAlone(r, d) ==
    /\ \A i \in 1..Len(r.videoUrls) : r.videoUrls[i] = PlaylistOf(r.url)
    /\ r.page # "none" => r.pc # "idle"
    /\ d.dir => "mkdir" \in r.effects
    /\ d.video # "absent" => "download" \in r.effects
    /\ d.video = "complete" <=> "retrieved" \in r.effects
    /\ d.frames # {} => r.effects \cap {"extractFrames", "extractAllFrames"} # {}
    /\ d.frames \subseteq FramesOf(r)
    /\ d.metadata.written <=> r.result.returned
    /\ r.result.returned =>
          /\ r.pc = "done"
          /\ d.metadata = r.result.metadata
          /\ r.result.metadata.tweet_id = extractTweetId(r.url)
          /\ r.result.metadata.frame_count = Cardinality(FramesOf(r))
          /\ r.result.videoPath = dirOf(r.url) \o <<SLASH>> \o VideoFile
          /\ { r.result.frames[i] : i \in 1..Len(r.result.frames) } = FramesOf(r)
          /\ d.video = "complete"
          /\ d.frames = FramesOf(r)

\* C16: two calls for different posts that run at the same time do not touch
\* each other: under every interleaving each call has its own response log,
\* page and directory, and its result and files are those of a call that
\* runs alone.
C16_ConcurrentRunsIndependent ==
    Len(parked) = 1 =>
        /\ dirOf(url) # dirOf(parked[1].url)
        /\ AsAlone(RunLocals, disk)
        /\ AsAlone(parked[1], fs[dirOf(parked[1].url)])

\* Both calls have succeeded, and each wrote its metadata after the other
\* had started.
C16_Witness ==
    /\ Len(parked) = 1
    /\ pc = "done"
    /\ parked[1].pc = "done"
    /\ disk.metadata.downloaded_at = 2
    /\ disk.metadata.tweet_id = N(10)
    /\ fs[dirOf(parked[1].url)].metadata.downloaded_at = 2
    /\ fs[dirOf(parked[1].url)].metadata.tweet_id = N(12)

\* C17: the page opened by downloadVideoFile is closed on every exit path:
\* no run has ended, with a result or with an error, while its page is open.
C17_PageClosedOnEveryExit ==
    pc \in {"done", "failed"} => page # "open"

\* The stage of downloadVideo that a position belongs to: 0 before the run
\* and during the ffmpeg path lookup, 1 ParseInput, 2 ResolveIdentity (with
\* SelectStream as the last, synchronous part of its last step), 3 Retrieve,
\* 4 ProbeMetadata, 5 SampleFrames, 6 PersistMetadata, 7 Done.
StageOf(p) ==
    IF p \in {"idle", "start"} THEN 0
    ELSE IF p = "parse" THEN 1
    ELSE IF p \in {"mkdir", "context", "newPage", "goto", "settle", "findPlay", "click",
                   "wait", "close"} THEN 2
    ELSE IF p \in {"hls", "http", "body"} THEN 3
    ELSE IF p = "probe" THEN 4
    ELSE IF p \in {"extractFrames", "frameLoop", "allFrames"} THEN 5
    ELSE IF p = "persist" THEN 6
    ELSE 7

Ended == {"failed", "hung", "done"}

\* C18: in one run the stages follow each other in the order ParseInput,
\* ResolveIdentity, SelectStream, Retrieve, ProbeMetadata, SampleFrames,
\* PersistMetadata, Done: a step stays in its stage or enters the next one,
\* the next one only when the stage before has succeeded, never an earlier
\* one; and a run that has failed executes nothing more.
C18_StagesInOrder ==
    [][ /\ pc \in Ended => pc' = pc
        /\ (pc \notin Ended /\ pc' \notin {"failed", "hung"}) =>
              /\ StageOf(pc') >= StageOf(pc)
              /\ \/ StageOf(pc') <= StageOf(pc) + 1
                 \/ pc = "probe" /\ pc' = "persist" /\ ~shouldExtractFrames
              /\ StageOf(pc') >= 2 => tweetId' # Null
              /\ StageOf(pc') >= 3 => "selected" \in effects'
              /\ StageOf(pc') >= 4 => "retrieved" \in effects'
              /\ StageOf(pc') >= 5 => "probed" \in effects'
              /\ StageOf(pc') >= 6 =>
                    /\ "probed" \in effects'
                    /\ shouldExtractFrames => "sampled" \in effects'
              /\ pc' = "done" => "writeMetadata" \in effects'
        /\ (pc' = "failed" /\ pc # "failed") =>
              /\ error' # ""
              /\ "writeMetadata" \notin effects'
      ]_vars

\* A run with frames has passed every stage.
C18_Witness ==
    /\ pc = "done"
    /\ shouldExtractFrames
    /\ {"selected", "retrieved", "probed", "sampled", "writeMetadata"} \subseteq effects
    /\ result.returned

\* C19: the play button is clicked at most once per attempt and only when the
\* log was empty after the initial wait; when the log is empty at the end of
\* the observation (after the extra wait, or without a play button), the
\* attempt fails with the no-video-found error and neither a stream is
\* selected nor a retrieval started.
C19_PlayRecoveryOnce ==
    /\ clicked <= 1
    /\ (clicked = 1 \/ pc \in {"findPlay", "click", "wait"}) => "emptyAfterLoad" \in effects
    /\ (page = "closed" /\ "selected" \notin effects /\ Len(videoUrls) = 0) =>
          /\ pc = "failed"
          /\ error = "No video found in this tweet"
          /\ effects \cap {"download", "retrieved", "getFfmpegPath"} \subseteq
                (IF shouldExtractFrames THEN {"getFfmpegPath"} ELSE {})
          /\ downloadUrl = <<>>
          /\ disk.video = "absent"
    /\ error = "No video found in this tweet" => (page = "closed" /\ Len(videoUrls) = 0)

\* The play button was clicked and the log stayed empty.
C19_Witness ==
    /\ clicked = 1
    /\ page = "closed"
    /\ pc = "failed"
    /\ error = "No video found in this tweet"

\* C20: when the log holds a Media Identity Group and the url has a post id
\* (any run of digits), the pool is exactly the members of one group and
\* holds no response without a media id; otherwise the pool is the whole log
\* in the order of observation.
C20_PoolIsOneGroupOrWholeLog ==
    Resolved =>
        IF Len(videoGroups(videoUrls)) > 0 /\ extractTweetId(url) # Null
        THEN /\ \E g \in 1..Len(videoGroups(videoUrls)) :
                   mainTweetVideos = videoGroups(videoUrls)[g].videos
             /\ \A i \in 1..Len(mainTweetVideos) : getVideoId(mainTweetVideos[i].url) # Null
        ELSE mainTweetVideos = videoUrls

\* The log changes by one append of a qualifying response, made while the
\* resolver is suspended at an await.
IsAppend ==
    /\ Len(videoUrls') = Len(videoUrls) + 1
    /\ SubSeq(videoUrls', 1, Len(videoUrls)) = videoUrls
    /\ IsVideoResponse(videoUrls'[Len(videoUrls')])
    /\ pc' = pc

\* The log is created empty by newPage and ends with the locals of
\* downloadVideoFile.
IsLogCreationOrEnd ==
    /\ videoUrls' = <<>>
    /\ \/ pc = "newPage"
       \/ pc \in {"hls", "body"} /\ pc' = "probe"

\* C21: the log is written only by the listener and only appended to, and no
\* response is appended after the first read of the resolver whose result is
\* used for recovery, grouping or selection; that read is the test
\* videoUrls.length > 0 behind the first wait, which decides on the recovery.
C21_NoAppendAfterFirstRead ==
    [][ videoUrls' # videoUrls =>
          \/ IsLogCreationOrEnd
          \/ IsAppend /\ pc \in {"goto", "settle"}
      ]_vars

\* C21, amended: the log is written only by the listener and only appended
\* to, no response is appended once the page is closed, and the pool and the
\* stream are computed from the log only when the page is closed.
C21_NoAppendAfterClose ==
    [][ /\ videoUrls' # videoUrls =>
              \/ IsLogCreationOrEnd
              \/ IsAppend /\ page = "open" /\ page' = "open"
        /\ (mainTweetVideos' # mainTweetVideos \/ downloadUrl' # downloadUrl) =>
              /\ page' = "closed"
              /\ \/ videoUrls' = videoUrls
                 \/ IsLogCreationOrEnd
      ]_vars

\* A response that arrived after the click was appended and a stream was
\* chosen from it.
C21_Witness ==
    /\ clicked = 1
    /\ "emptyAfterLoad" \in effects
    /\ page = "closed"
    /\ Len(videoUrls) > 0
    /\ "selected" \in effects
    /\ downloadUrl # <<>>

\* a <= b for two fractions with positive denominators
FracLeq(a, b) == a.num * b.den <= b.num * a.den

\* C22: in count mode the sample instants are non-decreasing in the frame
\* number, for every count and every duration.
C22_InstantsNonDecreasing ==
    \A k \in 1..(Len(positions) - 1) : FracLeq(positions[k], positions[k + 1])

\* A response passes the status and format filters of the playlist path or
\* of the progressive-file path.
PassesPlaylistFilters(v) ==
    /\ v.status = 200
    /\ Includes(v.url, ".m3u8")
    /\ \/ SlashResMatches(v.url) # {}
       \/ IncludesSeq(v.url, <<L("pl"), SLASH, L("avc1")>>)

PassesFileFilters(v) ==
    /\ v.status = 200
    /\ Includes(v.url, ".mp4")
    /\ ~Includes(v.url, ".m4s")

Retrieving == pc \in {"hls", "http", "body", "hung"}

\* C23: the URL handed to the retrieval is the URL of a response of the pool
\* that was recorded with status 200; when no response of the pool passes the
\* filters of either path, the run fails with 'Could not find downloadable
\* video URL' and neither ffmpeg nor an HTTP request is started.
C23_RetrievedUrlHasStatus200 ==
    /\ (Retrieving \/ (pc = "failed" /\ "download" \in effects)) =>
          /\ \E i \in 1..Len(mainTweetVideos) :
                /\ mainTweetVideos[i].url = downloadUrl
                /\ mainTweetVideos[i].status = 200
          /\ (http.requests = 1 /\ http.redirectCount = 0) => http.currentUrl = downloadUrl
    /\ (page = "closed" /\ Len(videoUrls) > 0 /\ \A i \in 1..Len(mainTweetVideos) :
            ~PassesPlaylistFilters(mainTweetVideos[i]) /\ ~PassesFileFilters(mainTweetVideos[i]))
       => /\ pc = "failed"
          /\ error = "Could not find downloadable video URL"
          /\ effects \cap {"download", "getFfmpegPath", "retrieved"} = {}
          /\ http = NoHttp
          /\ disk.video = "absent"
    /\ error = "Could not find downloadable video URL" =>
          \A i \in 1..Len(mainTweetVideos) :
              ~PassesPlaylistFilters(mainTweetVideos[i]) /\ ~PassesFileFilters(mainTweetVideos[i])

\* A retrieval was started for a status-200 file of a pool that also holds a
\* file recorded with another status.
C23_Witness ==
    /\ "download" \in effects
    /\ http.requests = 1
    /\ \E i \in 1..Len(mainTweetVideos) : mainTweetVideos[i].status # 200
    /\ \E i \in 1..Len(mainTweetVideos) :
         mainTweetVideos[i].url = downloadUrl /\ mainTweetVideos[i].status = 200

\* C24: when the pool holds qualifying playlist candidates, the chosen URL is
\* the URL of one of them and no qualifying candidate of the pool has a larger
\* resolution area than the chosen one (area 0 without a /WxH/ segment).
C24_SelectedPlaylistHasMaxArea ==
    (Resolved /\ \E i \in 1..Len(mainTweetVideos) : PassesPlaylistFilters(mainTweetVideos[i]))
    => /\ isHLS
       /\ \E i \in 1..Len(mainTweetVideos) :
             /\ PassesPlaylistFilters(mainTweetVideos[i])
             /\ mainTweetVideos[i].url = downloadUrl
       /\ \A i \in 1..Len(mainTweetVideos) :
             PassesPlaylistFilters(mainTweetVideos[i]) =>
                HlsPixels(mainTweetVideos[i].url) <= HlsPixels(downloadUrl)

\* The chosen playlist comes later in the pool than a qualifying playlist of
\* a smaller, positive area, in a pool of one media id.
C24_Witness ==
    /\ Resolved
    /\ isHLS
    /\ Len(videoGroups(mainTweetVideos)) = 1
    /\ \E i, j \in 1..Len(mainTweetVideos) :
         /\ i < j
         /\ PassesPlaylistFilters(mainTweetVideos[i])
         /\ mainTweetVideos[j].url = downloadUrl
         /\ 0 < HlsPixels(mainTweetVideos[i].url)
         /\ HlsPixels(mainTweetVideos[i].url) < HlsPixels(downloadUrl)

\* The next request of makeRequest goes to an absolute URL whose scheme is
\* not the one of the URL the download was started with.
CrossSchemeTarget ==
    /\ http.requests > 0
    /\ http.redirectCount <= MaxRedirects
    /\ Len(http.currentUrl) > 0
    /\ http.currentUrl[1].k \in {"https:", "http:"}
    /\ http.currentUrl[1].k # protocolOf(downloadUrl)

\* C25: a redirect within the bound from an https URL to an http URL, or from
\* an http URL to an https URL, is followed, and the download completes or
\* fails with a reported error: behind such a redirect the call is requesting,
\* transferring, resolved or rejected.
C25_CrossSchemeRedirectFollowed ==
    CrossSchemeTarget => pc \in {"http", "body", "probe", "failed"}

\* C26: every call of downloadFileHttp settles in the end, for every
\* behaviour of the server: it resolves, after which the run goes on with
\* the probe, or it rejects.
C26_DownloadFileHttpSettles ==
    (pc = "http") ~> (pc \in {"probe", "failed"})

\* The handler of the request has come to its end: it has returned from a
\* guard, its promise has rejected, or the promise of downloadVideo that its
\* callbacks wait for can never settle.  No step of the handler follows.
HandlerEnded ==
    \/ req.at \in {"returned", "rejected"}
    \/ req.at = "download" /\ pc = "hung"
    \/ req.at = "download" /\ pc \in {"done", "failed"} /\ res.sent

\* C27: every request to the download endpoint gets exactly one response on
\* every path: no handler comes to its end without having sent one.  (A
\* second response is never sent: every send is followed by a return or is
\* the single statement of a .then or .catch callback.)
C27_NoRequestLeftUnanswered ==
    HandlerEnded => res.sent

\* The response of the first guard of the handler that the request fails, in
\* the order url, browserId, format of the url, browser service, profile
\* found, profile authenticated (status 0: no guard fails).
FirstFailingGuard ==
    IF url = <<>> THEN [status |-> 400, error |-> "URL is required"]
    ELSE IF ~req.browserId THEN [status |-> 400, error |-> "Browser profile ID is required"]
    ELSE IF EndpointUrlMatches(url) = {}
         THEN [status |-> 400, error |-> "Invalid X.com URL format"]
    ELSE IF req.browserService = "null"
         THEN [status |-> 500, error |-> ServiceMissing]
    ELSE IF req.lookup.rejects THEN [status |-> 500, error |-> "Internal Server Error"]
    ELSE IF ~req.lookup.success THEN [status |-> 404, error |-> "Browser profile not found"]
    ELSE IF ~req.lookup.authenticated
         THEN [status |-> 401, error |-> NotAuthenticated]
    ELSE [status |-> 0, error |-> ""]

\* C28: downloadVideo is called only for a request that passes every guard,
\* a request that fails one is answered by the first guard it fails, in the
\* order url (400), browserId (400), format of the url (400), browser service
\* (500), profile found (404), profile authenticated (401), and for such a
\* request no run is started and nothing is written to disk.
C28_GuardsBeforeDownload ==
    /\ runs > 0 => FirstFailingGuard.status = 0
    /\ FirstFailingGuard.status # 0 =>
          /\ pc = "idle"
          /\ runs = 0
          /\ effects = {}
          /\ disk = EmptyDisk
          /\ page = "none"
          /\ res.sent => /\ res.status = FirstFailingGuard.status
                         /\ res.error = FirstFailingGuard.error
          /\ (req.at = "returned") => res.sent
    /\ (FirstFailingGuard.status = 0 /\ res.sent) => req.at = "download"

\* A request without profile id for a url of another form, with no browser
\* service, was answered.
C28_Witness ==
    /\ res.sent
    /\ res.status = 400
    /\ url # <<>>
    /\ ~req.browserId
    /\ EndpointUrlMatches(url) = {}
    /\ req.browserService = "null"
    /\ runs = 0

\* frameUrls and frames have the same length, and the URL at an index ends
\* in the directory name and the file name of the frame at that index.
FrameUrlsAligned ==
    (res.sent /\ res.status = 200) =>
        /\ Len(res.frameUrls) = Len(result.frames)
        /\ \A i \in 1..Len(res.frameUrls) :
              res.frameUrls[i] = MountPrefix \o videoDirName(username, tweetId)
                                    \o <<SLASH>> \o frameName(result.frames[i])

\* C29: in every successful response frameUrls is as long as frames and
\* frameUrls[i] names the file frames[i], that is, the static route answers
\* the URL from the path that frames[i] holds; in count mode and in all mode,
\* also when the directory held frame files of an earlier run.
C29_FrameUrlsNameFrames ==
    (res.sent /\ res.status = 200) =>
        /\ Len(res.frameUrls) = Len(result.frames)
        /\ \A i \in 1..Len(result.frames) :
              videoDir \o <<SLASH>> \o frameName(result.frames[i])
                  = staticFile(res.frameUrls[i])

====
